---- MODULE Spec2Model ----
(***************************************************************************)
(* RISC-V RV32IMA step engine of MSIM: trap entry (m_trap, s_trap),        *)
(* exception delegation, interrupt delivery, accounting and the pc update  *)
(* of rv_cpu_step, as written in src/src/device/cpu/riscv_rv32ima/cpu.c.   *)
(*                                                                         *)
(* One hart is modelled.  The record cpu is rv_cpu_t (with its csr block   *)
(* flattened); ex and instr_data are the locals of rv_cpu_step/execute;    *)
(* phase is the position inside rv_cpu_step.  The field cpu.trapped is the *)
(* log of the m_trap/s_trap calls made by the current step.                *)
(*                                                                         *)
(* pm is physical memory as the core sees it through physmem.h (the words  *)
(* of the mapped addresses and the valid bit of every RAM frame), cache is *)
(* rv_instruction_cache, and call records the last call made through the   *)
(* host interface: its arguments, its results and the physical-memory      *)
(* accesses it made, in order.                                             *)
(***************************************************************************)
EXTENDS Integers, Sequences, FiniteSets, TLC

VARIABLES cpu, ex, instr_data, phase, steps, pm, cache, call

vars == <<cpu, ex, instr_data, phase, steps, pm, cache, call>>

\* the state outside rv_cpu_t and the locals of rv_cpu_step
memvars == <<pm, cache, call>>

(***************************************************************************)
(* Bounds of the model.                                                    *)
(***************************************************************************)
\* number of rv_cpu_step calls explored
MaxSteps == 4
\* number of integer registers kept (x0 .. x(NRegs-1))
NRegs == 1
\* mtime is advanced by the host clock only while it stays <= MaxTime
MaxTime == 100
\* uint32_t is modelled as a word of XLEN bits and uint64_t as one of DLEN bits
\* (the model checker's integers are 32-bit signed); the top bit of a word
\* plays the part of bit 31
XLEN == 20
DLEN == 29

(***************************************************************************)
(* Word arithmetic.                                                        *)
(***************************************************************************)
W32 == 2 ^ XLEN
W64 == 2 ^ DLEN

\* bit n of x
Bit(x, n) == (x \div (2 ^ n)) % 2

\* x with the field of `width` bits at `pos` replaced by v (v masked)
WithField(x, pos, width, v) ==
    x - (((x \div (2 ^ pos)) % (2 ^ width)) * (2 ^ pos))
      + ((v % (2 ^ width)) * (2 ^ pos))

\* (uint32_t) x
U32(x) == x % W32

(***************************************************************************)
(* Privilege modes, exception codes, CSR layout.                           *)
(***************************************************************************)
rv_umode == 0
rv_smode == 1
rv_mmode == 3

rv_exc_none == -1
RV_INTERRUPT_EXC_BITS == 2 ^ (XLEN - 1)

rv_exc_illegal_instruction == 2
rv_exc_umode_environment_call == 8
rv_exc_smode_environment_call == 9
rv_exc_mmode_environment_call == 11
rv_exc_instruction_page_fault == 12

rv_exc_supervisor_software_interrupt == RV_INTERRUPT_EXC_BITS + 1
rv_exc_machine_software_interrupt == RV_INTERRUPT_EXC_BITS + 3
rv_exc_supervisor_timer_interrupt == RV_INTERRUPT_EXC_BITS + 5
rv_exc_machine_timer_interrupt == RV_INTERRUPT_EXC_BITS + 7
rv_exc_supervisor_external_interrupt == RV_INTERRUPT_EXC_BITS + 9
rv_exc_machine_external_interrupt == RV_INTERRUPT_EXC_BITS + 11

\* the exception number without the interrupt bit
RV_INTERRUPT_NO(e) == e % RV_INTERRUPT_EXC_BITS

\* is the interrupt bit set
IsInterrupt(e) == e >= RV_INTERRUPT_EXC_BITS

\* bit positions of mstatus / sstatus
rv_csr_sstatus_sie_pos == 1
rv_csr_mstatus_mie_pos == 3
rv_csr_sstatus_spie_pos == 5
rv_csr_mstatus_mpie_pos == 7
rv_csr_sstatus_spp_pos == 8
rv_csr_mstatus_mpp_pos == 11
rv_csr_mstatus_mprv_pos == 17

rv_csr_mstatus_mie(c) == Bit(c.mstatus, rv_csr_mstatus_mie_pos) = 1
rv_csr_mstatus_mpie(c) == Bit(c.mstatus, rv_csr_mstatus_mpie_pos) = 1
rv_csr_mstatus_mpp(c) == (c.mstatus \div (2 ^ rv_csr_mstatus_mpp_pos)) % 4
rv_csr_mstatus_mprv(c) == Bit(c.mstatus, rv_csr_mstatus_mprv_pos) = 1
rv_csr_sstatus_sie(c) == Bit(c.mstatus, rv_csr_sstatus_sie_pos) = 1
rv_csr_sstatus_spie(c) == Bit(c.mstatus, rv_csr_sstatus_spie_pos) = 1
rv_csr_sstatus_spp(c) == Bit(c.mstatus, rv_csr_sstatus_spp_pos)

\* mtvec / stvec: {base[31:2], mode[1:0]}
rv_csr_mtvec_mode_direct == 0
rv_csr_mtvec_mode_vectored == 1
TvecMode(tvec) == tvec % 4
TvecBase(tvec) == tvec - (tvec % 4)

\* satp.MODE is the top bit
rv_csr_satp_is_bare(c) == Bit(c.satp, XLEN - 1) = 0

\* 0xF0000000 in a word of 32 bits
RV_START_ADDRESS == 15 * (2 ^ (XLEN - 4))


\* interrupt numbers of the supervisor interrupts (rv_csr_si_mask)
rv_csr_si_numbers == {RV_INTERRUPT_NO(rv_exc_supervisor_software_interrupt),
                      RV_INTERRUPT_NO(rv_exc_supervisor_timer_interrupt),
                      RV_INTERRUPT_NO(rv_exc_supervisor_external_interrupt)}

\* x | RV_EXCEPTION_MASK(n)  and  x & ~RV_EXCEPTION_MASK(n)
SetMaskBit(x, n) == WithField(x, n, 1, 1)
ClearMaskBit(x, n) == WithField(x, n, 1, 0)

(***************************************************************************)
(* Physical memory as cpu.c uses it (physmem.h).  pm.mem gives the word    *)
(* stored at every mapped, 4-byte aligned physical address; pm.valid gives *)
(* the valid bit of every RAM frame, by frame address.  A frame has        *)
(* 2^FRAME_BITS bytes.  A memory context m = [pm, log] carries the memory  *)
(* and the accesses made so far by the running call.                       *)
(***************************************************************************)
\* log2 of FRAME_SIZE in the model
FRAME_BITS == 3

FRAME_SIZE == 2 ^ FRAME_BITS

ALIGN_DOWN(x, n) == x - (x % n)

IS_ALIGNED(x, n) == x % n = 0

\* out-of-range reads return all ones
DEFAULT_MEMORY_VALUE32 == W32 - 1

\* the bits of a word that one byte of it takes
BYTE_BITS == XLEN \div 4

\* number of bits and bit position, inside its word, of an access of `width`
AccessBits(width) == IF width = 32 THEN XLEN ELSE (width \div 8) * BYTE_BITS

AccessPos(addr, width) == IF width = 32 THEN 0 ELSE (addr % 4) * BYTE_BITS

\* frame_t* physmem_find_frame(addr): the frame address, or -1 for NULL
physmem_find_frame(p, addr) ==
    IF ALIGN_DOWN(addr, FRAME_SIZE) \in DOMAIN p.valid
    THEN ALIGN_DOWN(addr, FRAME_SIZE) ELSE -1

physmem_read(p, addr, width) ==
    LET w == IF ALIGN_DOWN(addr, 4) \in DOMAIN p.mem
             THEN p.mem[ALIGN_DOWN(addr, 4)] ELSE DEFAULT_MEMORY_VALUE32
    IN  (w \div (2 ^ AccessPos(addr, width))) % (2 ^ AccessBits(width))

\* false when no region maps addr; a write to a RAM frame clears its valid bit
physmem_write_ok(p, addr) == ALIGN_DOWN(addr, 4) \in DOMAIN p.mem

physmem_write(p, addr, width, value) ==
    IF ~physmem_write_ok(p, addr) THEN p
    ELSE LET a == ALIGN_DOWN(addr, 4)
             f == physmem_find_frame(p, addr)
             w == WithField(p.mem[a], AccessPos(addr, width),
                            AccessBits(width), value)
         IN  [mem |-> [p.mem EXCEPT ![a] = w],
              valid |-> IF f = -1 THEN p.valid
                        ELSE [p.valid EXCEPT ![f] = FALSE]]

\* one access to physical memory; ok is the result of a write
Access(op, addr, width, noisy, ok) ==
    [op |-> op, addr |-> addr, width |-> width, noisy |-> noisy, ok |-> ok]

MemCtx(p) == [pm |-> p, log |-> <<>>]

\* physmem_read32/16/8(hartid, addr, noisy), logged
PmRead(m, addr, width, noisy) ==
    [m |-> [m EXCEPT !.log = Append(@, Access("read", addr, width, noisy, TRUE))],
     value |-> physmem_read(m.pm, addr, width)]

\* physmem_write32/16/8(hartid, addr, value, noisy), logged
PmWrite(m, addr, width, value, noisy) ==
    [m |-> [pm |-> physmem_write(m.pm, addr, width, value),
            log |-> Append(m.log, Access("write", addr, width, noisy,
                                         physmem_write_ok(m.pm, addr)))],
     ok |-> physmem_write_ok(m.pm, addr)]

\* the memory of a configuration without RAM
NoMemory == [mem |-> <<>>, valid |-> <<>>]

\* the record of a call: operation, arguments (addr, value, width, wr, fetch,
\* noisy), results (ex, phys, out) and the physical-memory accesses made
Call(op, addr, value, width, wr, fetch, noisy, e, phys, out, log) ==
    [op |-> op, addr |-> addr, value |-> value, width |-> width,
     wr |-> wr, fetch |-> fetch, noisy |-> noisy,
     ex |-> e, phys |-> phys, out |-> out, log |-> log]

NoCall == Call("none", 0, 0, 0, FALSE, FALSE, FALSE, rv_exc_none, 0, 0, <<>>)

(***************************************************************************)
(* Effective privilege (cpu.c:157-158).                                    *)
(***************************************************************************)
sv32_effective_priv(c) ==
    IF rv_csr_mstatus_mprv(c) THEN rv_csr_mstatus_mpp(c) ELSE c.priv_mode

effective_priv(c) ==
    IF rv_csr_satp_is_bare(c) THEN c.priv_mode ELSE sv32_effective_priv(c)

(***************************************************************************)
(* Trap entry.                                                             *)
(***************************************************************************)
\* m_trap_cause leaving the hart in standby
m_trap_cause_keep_stdby(c, e) ==
    [c EXCEPT !.mepc = IF IsInterrupt(e) THEN c.pc_next ELSE c.pc,
              !.mcause = e,
              !.mtval = c.tval_next]

\* m_trap_cause saving pc for interrupts too
m_trap_cause_always_pc(c, e) ==
    [c EXCEPT !.stdby = FALSE,
              !.mepc = c.pc,
              !.mcause = e,
              !.mtval = c.tval_next]

\* m_trap, cpu.c:468-473: mepc, mcause, mtval
m_trap_cause(c, e) ==
    [c EXCEPT !.stdby = FALSE,
              !.mepc = IF IsInterrupt(e) THEN c.pc_next ELSE c.pc,
              !.mcause = e,
              !.mtval = c.tval_next]

\* m_trap_status clearing MIE before it is copied to MPIE
m_trap_status_clear_first(c) ==
    LET s1 == WithField(c.mstatus, rv_csr_mstatus_mie_pos, 1, 0)
        s2 == WithField(s1, rv_csr_mstatus_mpie_pos, 1, Bit(s1, rv_csr_mstatus_mie_pos))
        s3 == WithField(s2, rv_csr_mstatus_mpp_pos, 2, c.priv_mode)
    IN  [c EXCEPT !.mstatus = s3, !.priv_mode = rv_mmode]

\* m_trap, cpu.c:475-496: MPIE = MIE; MIE = 0; MPP = priv_mode; priv_mode = M
m_trap_status(c) ==
    LET mie_set == rv_csr_mstatus_mie(c)
        s1 == WithField(c.mstatus, rv_csr_mstatus_mpie_pos, 1,
                        IF mie_set THEN 1 ELSE 0)
        s2 == WithField(s1, rv_csr_mstatus_mie_pos, 1, 0)
        s3 == WithField(s2, rv_csr_mstatus_mpp_pos, 2, c.priv_mode)
    IN  [c EXCEPT !.mstatus = s3, !.priv_mode = rv_mmode]

\* trap_vector adding the cause offset for synchronous exceptions too
trap_vector_offset_always(c, tvec, e) ==
    LET mode == TvecMode(tvec)
        base == TvecBase(tvec)
    IN  IF mode = rv_csr_mtvec_mode_direct
        THEN [c EXCEPT !.pc_next = base]
        ELSE IF mode = rv_csr_mtvec_mode_vectored
        THEN [c EXCEPT !.pc_next = U32(base + 4 * RV_INTERRUPT_NO(e))]
        ELSE [c EXCEPT !.aborted = TRUE]

\* trap_vector taking a reserved mode for direct instead of failing
trap_vector_reserved_as_direct(c, tvec, e) ==
    LET mode == TvecMode(tvec)
        base == TvecBase(tvec)
    IN  IF mode = rv_csr_mtvec_mode_vectored
        THEN IF IsInterrupt(e)
             THEN [c EXCEPT !.pc_next = U32(base + 4 * RV_INTERRUPT_NO(e))]
             ELSE [c EXCEPT !.pc_next = base]
        ELSE [c EXCEPT !.pc_next = base]

\* m_trap / s_trap, cpu.c:498-514 and 550-566: next pc from the vector register;
\* a mode other than direct or vectored fails the assertion
trap_vector(c, tvec, e) ==
    LET mode == TvecMode(tvec)
        base == TvecBase(tvec)
    IN  IF mode = rv_csr_mtvec_mode_direct
        THEN [c EXCEPT !.pc_next = base]
        ELSE IF mode = rv_csr_mtvec_mode_vectored
        THEN IF IsInterrupt(e)
             THEN [c EXCEPT !.pc_next = U32(base + 4 * RV_INTERRUPT_NO(e))]
             ELSE [c EXCEPT !.pc_next = base]
        ELSE [c EXCEPT !.aborted = TRUE]

m_trap(c, e) ==
    LET c1 == m_trap_cause(c, e)
        c2 == m_trap_status(c1)
        c3 == trap_vector(c2, c2.mtvec, e)
    IN  [c3 EXCEPT !.trapped = Append(@, <<"m", e>>)]

\* s_trap_cause saving pc for interrupts too
s_trap_cause_always_pc(c, e) ==
    [c EXCEPT !.stdby = FALSE,
              !.sepc = c.pc,
              !.scause = e,
              !.stval = c.tval_next]

\* s_trap, cpu.c:520-525: sepc, scause, stval
s_trap_cause(c, e) ==
    [c EXCEPT !.stdby = FALSE,
              !.sepc = IF IsInterrupt(e) THEN c.pc_next ELSE c.pc,
              !.scause = e,
              !.stval = c.tval_next]

\* s_trap, cpu.c:527-548: SPIE = SIE; SIE = 0; SPP = priv_mode; priv_mode = S
s_trap_status(c) ==
    LET sie_set == rv_csr_sstatus_sie(c)
        s1 == WithField(c.mstatus, rv_csr_sstatus_spie_pos, 1,
                        IF sie_set THEN 1 ELSE 0)
        s2 == WithField(s1, rv_csr_sstatus_sie_pos, 1, 0)
        s3 == WithField(s2, rv_csr_sstatus_spp_pos, 1, c.priv_mode)
    IN  [c EXCEPT !.mstatus = s3, !.priv_mode = rv_smode]

s_trap(c, e) ==
    LET c1 == s_trap_cause(c, e)
        c2 == s_trap_status(c1)
        c3 == trap_vector(c2, c2.stvec, e)
    IN  [c3 EXCEPT !.trapped = Append(@, <<"s", e>>)]

\* handle_exception delegating whatever the current privilege is
handle_exception_no_priv_check(c, e) ==
    LET delegated == Bit(c.medeleg, RV_INTERRUPT_NO(e)) = 1
    IN  IF delegated THEN s_trap(c, e) ELSE m_trap(c, e)

\* handle_exception, cpu.c:569-579
handle_exception(c, e) ==
    LET delegated == Bit(c.medeleg, RV_INTERRUPT_NO(e)) = 1
    IN  IF delegated /\ c.priv_mode # rv_mmode
        THEN s_trap(c, e)
        ELSE m_trap(c, e)

(***************************************************************************)
(* Interrupt delivery (try_handle_interrupt, cpu.c:581-628).               *)
(***************************************************************************)
\* effective_mip without the external line
effective_mip_csr_only(c) == c.mip

\* cpu.c:585: csr.mip | (external_SEIP ? rv_csr_sei_mask : 0)
effective_mip(c) ==
    IF c.external_SEIP
    THEN SetMaskBit(c.mip, RV_INTERRUPT_NO(rv_exc_supervisor_external_interrupt))
    ELSE c.mip

\* m_mode_active_interrupt_mask keeping the machine interrupts only
m_mode_active_interrupt_mask_machine_only(c) ==
    {n \in 0..(XLEN - 1) : /\ Bit(effective_mip(c), n) = 1
                   /\ Bit(c.mie, n) = 1
                   /\ Bit(c.mideleg, n) = 0
                   /\ n \notin rv_csr_si_numbers}

\* cpu.c:603: the numbers of the bits of mip & mie & ~mideleg
m_mode_active_interrupt_mask(c) ==
    {n \in 0..(XLEN - 1) : /\ Bit(effective_mip(c), n) = 1
                   /\ Bit(c.mie, n) = 1
                   /\ Bit(c.mideleg, n) = 0}

\* cpu.c:619: the numbers of the bits of mip & mie & rv_csr_si_mask
s_mode_active_interrupt_mask(c) ==
    {n \in 0..(XLEN - 1) : /\ Bit(effective_mip(c), n) = 1
                   /\ Bit(c.mie, n) = 1
                   /\ n \in rv_csr_si_numbers}

\* can_trap_to_M without the (priv_mode == M && MIE) case
can_trap_to_M_lower_only(c) == c.priv_mode < rv_mmode

\* cpu.c:600 and 616
can_trap_to_M(c) ==
    \/ (c.priv_mode = rv_mmode /\ rv_csr_mstatus_mie(c))
    \/ c.priv_mode < rv_mmode

\* can_trap_to_S without the sstatus.SIE test
can_trap_to_S_ignores_sie(c) == c.priv_mode <= rv_smode

can_trap_to_S(c) ==
    \/ (c.priv_mode = rv_smode /\ rv_csr_sstatus_sie(c))
    \/ c.priv_mode < rv_smode

\* m_trap_order with the timer interrupt tried before the software interrupt
m_trap_order_timer_first == <<rv_exc_machine_external_interrupt,
                              rv_exc_machine_timer_interrupt,
                              rv_exc_machine_software_interrupt,
                              rv_exc_supervisor_external_interrupt,
                              rv_exc_supervisor_software_interrupt,
                              rv_exc_supervisor_timer_interrupt>>

\* the order of the trap_if_set lines, cpu.c:605-610 and 622-624
m_trap_order == <<rv_exc_machine_external_interrupt,
                  rv_exc_machine_software_interrupt,
                  rv_exc_machine_timer_interrupt,
                  rv_exc_supervisor_external_interrupt,
                  rv_exc_supervisor_software_interrupt,
                  rv_exc_supervisor_timer_interrupt>>

s_trap_order == <<rv_exc_supervisor_external_interrupt,
                  rv_exc_supervisor_software_interrupt,
                  rv_exc_supervisor_timer_interrupt>>

\* the first interrupt of `order` whose bit is in `mask` (the first trap_if_set
\* that fires), rv_exc_none when none does
trap_if_set(mask, order) ==
    LET hits == {k \in 1..Len(order) : RV_INTERRUPT_NO(order[k]) \in mask}
    IN  IF hits = {} THEN rv_exc_none
        ELSE order[CHOOSE k \in hits : \A j \in hits : k <= j]

\* try_handle_interrupt whose trap_if_set lines do not return: every active
\* M-mode interrupt is trapped in turn
try_handle_interrupt_no_return(c) ==
    IF effective_mip(c) = 0 THEN c
    ELSE
      LET mask == IF can_trap_to_M(c) THEN m_mode_active_interrupt_mask(c) ELSE {}
          after[k \in 0..Len(m_trap_order)] ==
              IF k = 0 THEN c
              ELSE IF RV_INTERRUPT_NO(m_trap_order[k]) \in mask
                   THEN m_trap(after[k - 1], m_trap_order[k])
                   ELSE after[k - 1]
          s_int == IF can_trap_to_S(c)
                   THEN trap_if_set(s_mode_active_interrupt_mask(c), s_trap_order)
                   ELSE rv_exc_none
      IN  IF mask # {} THEN after[Len(m_trap_order)]
          ELSE IF s_int # rv_exc_none THEN s_trap(c, s_int)
          ELSE c

try_handle_interrupt(c) ==
    IF effective_mip(c) = 0 THEN c
    ELSE
      LET m_int == IF can_trap_to_M(c)
                   THEN trap_if_set(m_mode_active_interrupt_mask(c), m_trap_order)
                   ELSE rv_exc_none
          s_int == IF can_trap_to_S(c)
                   THEN trap_if_set(s_mode_active_interrupt_mask(c), s_trap_order)
                   ELSE rv_exc_none
      IN  IF m_int # rv_exc_none THEN m_trap(c, m_int)
          ELSE IF s_int # rv_exc_none THEN s_trap(c, s_int)
          ELSE c

(***************************************************************************)
(* Accounting (cpu.c:630-709).  mcountinhibit is a word of XLEN bits, so   *)
(* the record keeps the hpm counters whose inhibit bit i + 3 lies in it.   *)
(* hpmevents[i] is one of "hpm_no_event", "hpm_u_cycles", "hpm_s_cycles",  *)
(* "hpm_m_cycles", "hpm_w_cycles".                                         *)
(***************************************************************************)
HpmCounters == 0..(XLEN - 4)

\* account_hmp without the mcountinhibit test
account_hmp_never_inhibited(c, i) ==
    LET event == c.hpmevents[i]
        counts == CASE event = "hpm_u_cycles" -> c.priv_mode = rv_umode
                    [] event = "hpm_s_cycles" -> c.priv_mode = rv_smode
                    [] event = "hpm_m_cycles" -> c.priv_mode = rv_mmode
                    [] event = "hpm_w_cycles" -> c.stdby
                    [] OTHER -> FALSE
    IN  IF counts THEN (c.hpmcounters[i] + 1) % W64 ELSE c.hpmcounters[i]

\* account_hmp (cpu.c:630-668): the value of hpmcounters[i] after the call
account_hmp(c, i) ==
    LET inhibited == Bit(c.mcountinhibit, i + 3) = 1
        event == c.hpmevents[i]
        counts == CASE event = "hpm_u_cycles" -> c.priv_mode = rv_umode
                    [] event = "hpm_s_cycles" -> c.priv_mode = rv_smode
                    [] event = "hpm_m_cycles" -> c.priv_mode = rv_mmode
                    [] event = "hpm_w_cycles" -> c.stdby
                    [] OTHER -> FALSE
    IN  IF inhibited THEN c.hpmcounters[i]
        ELSE IF counts THEN (c.hpmcounters[i] + 1) % W64
        ELSE c.hpmcounters[i]

\* raise_timer_interrupts comparing the whole 64-bit cycle with scyclecmp
raise_timer_interrupts_no_cast(c) ==
    LET sti == RV_INTERRUPT_NO(rv_exc_supervisor_timer_interrupt)
        mti == RV_INTERRUPT_NO(rv_exc_machine_timer_interrupt)
        m1 == IF c.cycle >= c.scyclecmp
              THEN SetMaskBit(c.mip, sti) ELSE ClearMaskBit(c.mip, sti)
        m2 == IF c.mtime >= c.mtimecmp
              THEN SetMaskBit(m1, mti) ELSE ClearMaskBit(m1, mti)
    IN  [c EXCEPT !.mip = m2]

raise_timer_interrupts(c) ==
    LET sti == RV_INTERRUPT_NO(rv_exc_supervisor_timer_interrupt)
        mti == RV_INTERRUPT_NO(rv_exc_machine_timer_interrupt)
        m1 == IF U32(c.cycle) >= c.scyclecmp
              THEN SetMaskBit(c.mip, sti) ELSE ClearMaskBit(c.mip, sti)
        m2 == IF c.mtime >= c.mtimecmp
              THEN SetMaskBit(m1, mti) ELSE ClearMaskBit(m1, mti)
    IN  [c EXCEPT !.mip = m2]

\* account counting an instruction as retired while the hart waits in WFI
account_instret_in_stdby(c, exception_raised, delta) ==
    LET c1 == IF Bit(c.mcountinhibit, 0) = 0
              THEN [c EXCEPT !.cycle = (@ + 1) % W64] ELSE c
        c2 == [c1 EXCEPT !.mtime = (@ + delta) % W64]
        c3 == IF Bit(c.mcountinhibit, 2) = 0 /\ ~exception_raised
              THEN [c2 EXCEPT !.instret = (@ + 1) % W64] ELSE c2
        c4 == [c3 EXCEPT !.hpmcounters = [i \in HpmCounters |-> account_hmp(c3, i)]]
    IN  raise_timer_interrupts(c4)

\* delta is current_timestamp() - last_tick_time
account(c, exception_raised, delta) ==
    LET c1 == IF Bit(c.mcountinhibit, 0) = 0
              THEN [c EXCEPT !.cycle = (@ + 1) % W64] ELSE c
        c2 == [c1 EXCEPT !.mtime = (@ + delta) % W64]
        c3 == IF Bit(c.mcountinhibit, 2) = 0 /\ ~exception_raised /\ ~c.stdby
              THEN [c2 EXCEPT !.instret = (@ + 1) % W64] ELSE c2
        c4 == [c3 EXCEPT !.hpmcounters = [i \in HpmCounters |-> account_hmp(c3, i)]]
    IN  raise_timer_interrupts(c4)


(***************************************************************************)
(* The executed instruction.  An instruction is a record: op, the raw word *)
(* val, and the operands rd, csr, imm.  instr_func is the executor the     *)
(* decoder selects for it; it returns the new cpu and an exception code.   *)
(***************************************************************************)
Instr(op, val, rd, csr, imm) ==
    [op |-> op, val |-> val, rd |-> rd, csr |-> csr, imm |-> imm]

NoInstr == Instr("none", 0, 0, "", 0)

\* the CSRs a csrw of the model can write, each with the values written
CsrWrites ==
    {<<"mstatus", 2186>>,    \* MPP=S | MPIE | MIE | SIE
     <<"mtvec", 256>>,       \* 0x100, direct
     <<"mtvec", 257>>,       \* 0x100, vectored
     <<"stvec", 2048>>,      \* 0x800, direct
     <<"medeleg", 260>>,     \* illegal instruction and ecall from U
     <<"mie", 2176>>,        \* MEIE | MTIE
     <<"scyclecmp", 2>>,
     <<"mcountinhibit", 5>>, \* stop cycle and instret
     <<"cycle", W32 - 1>>}

Instrs ==
    {Instr("alu", 19, rd, "", 5) : rd \in 0..(NRegs - 1)}
    \cup {Instr("jump", 111, 0, "", t) : t \in {8192, W32 - 4}}
    \cup {Instr("wfi", 115, 0, "", 0), Instr("mret", 115, 0, "", 0),
          Instr("ecall", 115, 0, "", 0), Instr("illegal", 0, 0, "", 0)}
    \cup {Instr("csrw", 4211, 0, w[1], w[2]) : w \in CsrWrites}
    \cup {Instr("sw_mtimecmp", 35, 0, "", 50)}

\* mret: priv_mode = MPP; MIE = MPIE; MPIE = 1; MPP = U; pc_next = mepc
instr_mret(c) ==
    LET s1 == WithField(c.mstatus, rv_csr_mstatus_mie_pos, 1,
                        IF rv_csr_mstatus_mpie(c) THEN 1 ELSE 0)
        s2 == WithField(s1, rv_csr_mstatus_mpie_pos, 1, 1)
        s3 == WithField(s2, rv_csr_mstatus_mpp_pos, 2, rv_umode)
    IN  [c EXCEPT !.priv_mode = rv_csr_mstatus_mpp(c),
                  !.mstatus = s3,
                  !.pc_next = c.mepc]

\* try_write_memory_mapped_regs for a 32-bit store to the low word of MTIMECMP
\* (cpu.c:294-308): served by the register only at effective privilege M
store_mtimecmp(c, value) ==
    IF effective_priv(c) # rv_mmode THEN c
    ELSE [c EXCEPT !.mtimecmp = value]

Result(c, e) == [cpu |-> c, ex |-> e]

instr_func(c, i) ==
    CASE i.op = "alu" -> Result([c EXCEPT !.regs[i.rd] = i.imm], rv_exc_none)
      [] i.op = "jump" -> Result([c EXCEPT !.pc_next = i.imm], rv_exc_none)
      [] i.op = "wfi" -> Result([c EXCEPT !.stdby = TRUE], rv_exc_none)
      [] i.op = "mret" ->
            IF c.priv_mode = rv_mmode
            THEN Result(instr_mret(c), rv_exc_none)
            ELSE Result(c, rv_exc_illegal_instruction)
      [] i.op = "ecall" ->
            Result(c, IF c.priv_mode = rv_umode THEN rv_exc_umode_environment_call
                      ELSE IF c.priv_mode = rv_smode THEN rv_exc_smode_environment_call
                      ELSE rv_exc_mmode_environment_call)
      [] i.op = "csrw" ->
            IF c.priv_mode = rv_mmode
            THEN Result([c EXCEPT ![i.csr] = i.imm], rv_exc_none)
            ELSE Result(c, rv_exc_illegal_instruction)
      [] i.op = "sw_mtimecmp" -> Result(store_mtimecmp(c, i.imm), rv_exc_none)
      [] OTHER -> Result(c, rv_exc_illegal_instruction)

(***************************************************************************)
(* execute (cpu.c:711-737).  walk is the result of the page-table walk of  *)
(* rv_convert_addr for the fetch of pc, when translation is active.        *)
(***************************************************************************)
\* cpu.c:199
satp_active(c) ==
    (~rv_csr_satp_is_bare(c)) /\ sv32_effective_priv(c) <= rv_smode

\* rv_convert_addr(cpu, cpu->pc, &phys, false, true, true) as seen by execute
convert_fetch(c, walk) ==
    IF ~satp_active(c) THEN rv_exc_none ELSE walk

\* execute leaving tval_next alone on an illegal instruction
execute_no_tval(c, walk, i) ==
    LET e == convert_fetch(c, walk)
    IN  IF e # rv_exc_none THEN Result(c, e) ELSE instr_func(c, i)

execute(c, walk, i) ==
    LET e == convert_fetch(c, walk)
    IN  IF e # rv_exc_none THEN Result(c, e)
        ELSE LET r == instr_func(c, i)
             IN  IF r.ex = rv_exc_illegal_instruction
                 THEN Result([r.cpu EXCEPT !.tval_next = i.val], r.ex)
                 ELSE r

(***************************************************************************)
(* Sv32 address translation (cpu.c:129-262).  A virtual address of XLEN    *)
(* bits is VPN1 | VPN0 | 12-bit page offset; a PTE is a word with the      *)
(* flags v r w x u g a d in bits 0..7, rsw in bits 8..9 and the PPN above; *)
(* PPN0 has the width of VPN0 and PPN1 is the rest.                        *)
(***************************************************************************)
PAGESIZE == 12
PTESIZE == 4

VPN0_BITS == (XLEN - PAGESIZE) \div 2
VPN1_BITS == XLEN - PAGESIZE - VPN0_BITS
PPN_BITS == XLEN - 10

rv_exc_instruction_address_misaligned == 0
rv_exc_load_address_misaligned == 4
rv_exc_store_amo_address_misaligned == 6
rv_exc_load_page_fault == 13
rv_exc_store_amo_page_fault == 15

rv_csr_sstatus_sum_pos == 18
rv_csr_sstatus_mxr_pos == 19
rv_csr_sstatus_sum(c) == Bit(c.mstatus, rv_csr_sstatus_sum_pos) = 1
rv_csr_sstatus_mxr(c) == Bit(c.mstatus, rv_csr_sstatus_mxr_pos) = 1

rv_csr_satp_ppn(c) == c.satp % (2 ^ PPN_BITS)

\* sv32_pte_t, cpu.c:129-140
pte_from_uint(val) ==
    [v |-> Bit(val, 0), r |-> Bit(val, 1), w |-> Bit(val, 2), x |-> Bit(val, 3),
     u |-> Bit(val, 4), g |-> Bit(val, 5), a |-> Bit(val, 6), d |-> Bit(val, 7),
     rsw |-> (val \div 256) % 4, ppn |-> (val \div 1024) % (2 ^ PPN_BITS)]

uint_from_pte(pte) ==
    pte.v + 2 * pte.r + 4 * pte.w + 8 * pte.x + 16 * pte.u + 32 * pte.g
    + 64 * pte.a + 128 * pte.d + 256 * pte.rsw + 1024 * pte.ppn

is_pte_leaf(pte) == pte.r = 1 \/ pte.w = 1 \/ pte.x = 1
is_pte_valid(pte) == pte.v = 1 /\ (pte.w = 0 \/ pte.r = 1)
pte_ppn0(pte) == pte.ppn % (2 ^ VPN0_BITS)
pte_ppn1(pte) == pte.ppn - (pte.ppn % (2 ^ VPN0_BITS))

\* is_access_allowed without the test of SUM
is_access_allowed_no_sum(c, pte, wr, fetch) ==
    LET rx == rv_csr_sstatus_mxr(c) /\ pte.x = 1
    IN  /\ ~(wr /\ pte.w = 0)
        /\ ~(fetch /\ pte.x = 0)
        /\ ~(~wr /\ ~fetch /\ pte.r = 0 /\ ~rx)
        /\ (sv32_effective_priv(c) = rv_smode => ~(fetch /\ pte.u = 1))
        /\ (sv32_effective_priv(c) = rv_umode => pte.u = 1)

\* cpu.c:160-180
is_access_allowed(c, pte, wr, fetch) ==
    LET rx == rv_csr_sstatus_mxr(c) /\ pte.x = 1
    IN  /\ ~(wr /\ pte.w = 0)
        /\ ~(fetch /\ pte.x = 0)
        /\ ~(~wr /\ ~fetch /\ pte.r = 0 /\ ~rx)
        /\ (sv32_effective_priv(c) = rv_smode =>
                /\ ~(~rv_csr_sstatus_sum(c) /\ pte.u = 1)
                /\ ~(fetch /\ pte.u = 1))
        /\ (sv32_effective_priv(c) = rv_umode => pte.u = 1)

\* make_phys_from_ppn taking PPN0 from the PTE also for a megapage
make_phys_from_ppn_pte_ppn0(virt, pte, megapage) ==
    (pte_ppn1(pte) * (2 ^ PAGESIZE)) + (pte_ppn0(pte) * (2 ^ PAGESIZE))
    + (virt % (2 ^ PAGESIZE))

\* cpu.c:182-190; the three parts do not overlap, so | is +
make_phys_from_ppn(virt, pte, megapage) ==
    LET page_offset == virt % (2 ^ PAGESIZE)
        virt_vpn0 == (virt % (2 ^ (PAGESIZE + VPN0_BITS))) - page_offset
        ppn0 == pte_ppn0(pte) * (2 ^ PAGESIZE)
        ppn1 == pte_ppn1(pte) * (2 ^ PAGESIZE)
        phys_ppn0 == IF megapage THEN virt_vpn0 ELSE ppn0
    IN  ppn1 + phys_ppn0 + page_offset

\* cpu.c:197
page_fault_exception(wr, fetch) ==
    IF fetch THEN rv_exc_instruction_page_fault
    ELSE IF wr THEN rv_exc_store_amo_page_fault ELSE rv_exc_load_page_fault

\* result of rv_convert_addr: the exception, *phys (written iff set) and the
\* memory context after the walk
Converted(e, set, phys, m) == [ex |-> e, set |-> set, phys |-> phys, m |-> m]

\* convert_leaf writing the PTE back whatever noisy is
convert_leaf_always_write_back(c, m, virt, wr, fetch, noisy, pte, pte_addr, megapage) ==
    IF ~is_access_allowed(c, pte, wr, fetch)
    THEN Converted(page_fault_exception(wr, fetch), FALSE, 0, m)
    ELSE LET pte2 == [pte EXCEPT !.a = 1, !.d = IF wr THEN 1 ELSE @]
             m2 == PmWrite(m, pte_addr, 32, uint_from_pte(pte2), TRUE).m
         IN  Converted(rv_exc_none, TRUE,
                       make_phys_from_ppn(virt, pte2, megapage), m2)

\* cpu.c:248-259, for the leaf pte read at pte_addr
convert_leaf(c, m, virt, wr, fetch, noisy, pte, pte_addr, megapage) ==
    IF ~is_access_allowed(c, pte, wr, fetch)
    THEN Converted(page_fault_exception(wr, fetch), FALSE, 0, m)
    ELSE LET pte2 == [pte EXCEPT !.a = 1, !.d = IF wr THEN 1 ELSE @]
             m2 == IF noisy
                   THEN PmWrite(m, pte_addr, 32, uint_from_pte(pte2), TRUE).m
                   ELSE m
         IN  Converted(rv_exc_none, TRUE,
                       make_phys_from_ppn(virt, pte2, megapage), m2)

\* cpu.c:232-246, the second level of the walk
convert_level0(c, m, virt, wr, fetch, noisy, pte1) ==
    LET vpn0 == (virt \div (2 ^ PAGESIZE)) % (2 ^ VPN0_BITS)
        pte_addr == (pte1.ppn * (2 ^ PAGESIZE)) + (vpn0 * PTESIZE)
        rd == PmRead(m, pte_addr, 32, noisy)
        pte == pte_from_uint(rd.value)
    IN  IF (~is_pte_valid(pte)) \/ (~is_pte_leaf(pte))
        THEN Converted(page_fault_exception(wr, fetch), FALSE, 0, rd.m)
        ELSE convert_leaf(c, rd.m, virt, wr, fetch, noisy, pte, pte_addr, FALSE)

\* rv_convert_addr without the test of a misaligned megapage
rv_convert_addr_no_ppn0_check(c, m, virt, wr, fetch, noisy) ==
    IF ~satp_active(c) THEN Converted(rv_exc_none, TRUE, virt, m)
    ELSE LET vpn1 == virt \div (2 ^ (PAGESIZE + VPN0_BITS))
             pte_addr == (rv_csr_satp_ppn(c) * (2 ^ PAGESIZE)) + (vpn1 * PTESIZE)
             rd == PmRead(m, pte_addr, 32, noisy)
             pte == pte_from_uint(rd.value)
         IN  IF ~is_pte_valid(pte)
             THEN Converted(page_fault_exception(wr, fetch), FALSE, 0, rd.m)
             ELSE IF is_pte_leaf(pte)
             THEN convert_leaf(c, rd.m, virt, wr, fetch, noisy,
                               pte, pte_addr, TRUE)
             ELSE convert_level0(c, rd.m, virt, wr, fetch, noisy, pte)

\* rv_convert_addr, cpu.c:192-262
rv_convert_addr(c, m, virt, wr, fetch, noisy) ==
    IF ~satp_active(c) THEN Converted(rv_exc_none, TRUE, virt, m)
    ELSE LET vpn1 == virt \div (2 ^ (PAGESIZE + VPN0_BITS))
             pte_addr == (rv_csr_satp_ppn(c) * (2 ^ PAGESIZE)) + (vpn1 * PTESIZE)
             rd == PmRead(m, pte_addr, 32, noisy)
             pte == pte_from_uint(rd.value)
         IN  IF ~is_pte_valid(pte)
             THEN Converted(page_fault_exception(wr, fetch), FALSE, 0, rd.m)
             ELSE IF is_pte_leaf(pte)
             THEN IF pte_ppn0(pte) # 0
                  THEN Converted(page_fault_exception(wr, fetch), FALSE, 0, rd.m)
                  ELSE convert_leaf(c, rd.m, virt, wr, fetch, noisy,
                                    pte, pte_addr, TRUE)
             ELSE convert_level0(c, rd.m, virt, wr, fetch, noisy, pte)

(***************************************************************************)
(* LR/SC reservation probe (cpu.c:768-777).  Physical memory calls it for  *)
(* every hart on each store it performs: sc_snoop applies it for the       *)
(* stores of a log.                                                        *)
(***************************************************************************)
\* rv_sc_access testing the unaligned address
rv_sc_access_unaligned(c, phys) ==
    IF c.reserved_addr = phys THEN [c EXCEPT !.reserved_valid = FALSE] ELSE c

\* the cpu after rv_sc_access(cpu, phys)
rv_sc_access(c, phys) ==
    IF c.reserved_addr = ALIGN_DOWN(phys, 4)
    THEN [c EXCEPT !.reserved_valid = FALSE] ELSE c

RECURSIVE sc_snoop(_, _)
sc_snoop(c, log) ==
    IF log = <<>> THEN c
    ELSE LET a == Head(log)
         IN  sc_snoop(IF a.op = "write" /\ a.ok THEN rv_sc_access(c, a.addr) ELSE c,
                      Tail(log))

(***************************************************************************)
(* The memory-mapped timer registers (cpu.c:264-308).  The low word of a   *)
(* 64-bit register is its bits 0..XLEN-1, the high word the bits above.    *)
(***************************************************************************)
RV_MTIME_ADDRESS == 255 * (2 ^ (XLEN - 8))
RV_MTIMECMP_ADDRESS == RV_MTIME_ADDRESS + 8

\* bit position in the register of the byte at virt, and the bits a `width`
\* access takes there
RegPos(virt) == (((virt % 8) \div 4) * XLEN) + ((virt % 4) * BYTE_BITS)

RegBits(virt, width) ==
    IF RegPos(virt) >= DLEN THEN 0
    ELSE IF RegPos(virt) + AccessBits(width) > DLEN THEN DLEN - RegPos(virt)
    ELSE AccessBits(width)

EXTRACT_BITS(reg, virt, width) ==
    IF RegBits(virt, width) = 0 THEN 0
    ELSE (reg \div (2 ^ RegPos(virt))) % (2 ^ RegBits(virt, width))

WRITE_BITS(reg, value, virt, width) ==
    IF RegBits(virt, width) = 0 THEN reg
    ELSE WithField(reg, RegPos(virt), RegBits(virt, width), value)

\* try_read_memory_mapped_regs_32/16/8, cpu.c:266-290
try_read_memory_mapped_regs(c, virt, width) ==
    IF ~IS_ALIGNED(virt, width \div 8) THEN [hit |-> FALSE, value |-> 0]
    ELSE IF effective_priv(c) # rv_mmode THEN [hit |-> FALSE, value |-> 0]
    ELSE IF ALIGN_DOWN(virt, 8) = RV_MTIME_ADDRESS
    THEN [hit |-> TRUE, value |-> EXTRACT_BITS(c.mtime, virt, width)]
    ELSE IF ALIGN_DOWN(virt, 8) = RV_MTIMECMP_ADDRESS
    THEN [hit |-> TRUE, value |-> EXTRACT_BITS(c.mtimecmp, virt, width)]
    ELSE [hit |-> FALSE, value |-> 0]

\* try_write_memory_mapped_regs inserting at bit 0 whatever the byte offset
try_write_memory_mapped_regs_no_offset(c, virt, value, width) ==
    IF ~IS_ALIGNED(virt, width \div 8) THEN [hit |-> FALSE, cpu |-> c]
    ELSE IF effective_priv(c) # rv_mmode THEN [hit |-> FALSE, cpu |-> c]
    ELSE IF ALIGN_DOWN(virt, 8) = RV_MTIME_ADDRESS
    THEN [hit |-> TRUE,
          cpu |-> [c EXCEPT !.mtime = WRITE_BITS(@, value, ALIGN_DOWN(virt, 8), width)]]
    ELSE IF ALIGN_DOWN(virt, 8) = RV_MTIMECMP_ADDRESS
    THEN [hit |-> TRUE,
          cpu |-> [c EXCEPT !.mtimecmp = WRITE_BITS(@, value, ALIGN_DOWN(virt, 8), width)]]
    ELSE [hit |-> FALSE, cpu |-> c]

\* try_write_memory_mapped_regs, cpu.c:294-308
try_write_memory_mapped_regs(c, virt, value, width) ==
    IF ~IS_ALIGNED(virt, width \div 8) THEN [hit |-> FALSE, cpu |-> c]
    ELSE IF effective_priv(c) # rv_mmode THEN [hit |-> FALSE, cpu |-> c]
    ELSE IF ALIGN_DOWN(virt, 8) = RV_MTIME_ADDRESS
    THEN [hit |-> TRUE,
          cpu |-> [c EXCEPT !.mtime = WRITE_BITS(@, value, virt, width)]]
    ELSE IF ALIGN_DOWN(virt, 8) = RV_MTIMECMP_ADDRESS
    THEN [hit |-> TRUE,
          cpu |-> [c EXCEPT !.mtimecmp = WRITE_BITS(@, value, virt, width)]]
    ELSE [hit |-> FALSE, cpu |-> c]

(***************************************************************************)
(* rv_read_mem8/16/32 and rv_write_mem8/16/32 (cpu.c:310-449).  Each       *)
(* returns the cpu, the memory context, the exception and *value.          *)
(***************************************************************************)
\* cpu.c:264
read_address_misaligned_exception(fetch) ==
    IF fetch THEN rv_exc_instruction_address_misaligned
    ELSE rv_exc_load_address_misaligned

\* the effect of throw_ex on the cpu, cpu.c:310-314
throw_ex(c, virt, noisy) ==
    IF noisy THEN [c EXCEPT !.tval_next = virt] ELSE c

MemResult(c, m, e, out) == [cpu |-> c, m |-> m, ex |-> e, out |-> out]

\* rv_read_mem32 testing the alignment before the translation
rv_read_mem32_align_first(c, m, virt, fetch, noisy) ==
    LET mm == try_read_memory_mapped_regs(c, virt, 32)
        cv == rv_convert_addr(c, m, virt, FALSE, fetch, noisy)
    IN  IF mm.hit THEN MemResult(c, m, rv_exc_none, mm.value)
        ELSE IF ~IS_ALIGNED(virt, 4)
        THEN MemResult(throw_ex(c, virt, noisy), m,
                       read_address_misaligned_exception(fetch), 0)
        ELSE IF cv.ex # rv_exc_none
        THEN MemResult(throw_ex(c, virt, noisy), cv.m, cv.ex, 0)
        ELSE LET rd == PmRead(cv.m, cv.phys, 32, TRUE)
             IN  MemResult(c, rd.m, rv_exc_none, rd.value)

\* cpu.c:316-338
rv_read_mem32(c, m, virt, fetch, noisy) ==
    LET mm == try_read_memory_mapped_regs(c, virt, 32)
        cv == rv_convert_addr(c, m, virt, FALSE, fetch, noisy)
    IN  IF mm.hit THEN MemResult(c, m, rv_exc_none, mm.value)
        ELSE IF cv.ex # rv_exc_none
        THEN MemResult(throw_ex(c, virt, noisy), cv.m, cv.ex, 0)
        ELSE IF ~IS_ALIGNED(virt, 4)
        THEN MemResult(throw_ex(c, virt, noisy), cv.m,
                       read_address_misaligned_exception(fetch), 0)
        ELSE LET rd == PmRead(cv.m, cv.phys, 32, TRUE)
             IN  MemResult(c, rd.m, rv_exc_none, rd.value)

\* cpu.c:340-359
rv_read_mem16(c, m, virt, fetch, noisy) ==
    LET mm == try_read_memory_mapped_regs(c, virt, 16)
        cv == rv_convert_addr(c, m, virt, FALSE, fetch, noisy)
    IN  IF mm.hit THEN MemResult(c, m, rv_exc_none, mm.value)
        ELSE IF cv.ex # rv_exc_none
        THEN MemResult(throw_ex(c, virt, noisy), cv.m, cv.ex, 0)
        ELSE IF ~IS_ALIGNED(virt, 2)
        THEN MemResult(throw_ex(c, virt, noisy), cv.m,
                       read_address_misaligned_exception(fetch), 0)
        ELSE LET rd == PmRead(cv.m, cv.phys, 16, TRUE)
             IN  MemResult(c, rd.m, rv_exc_none, rd.value)

\* cpu.c:361-376
rv_read_mem8(c, m, virt, noisy) ==
    LET mm == try_read_memory_mapped_regs(c, virt, 8)
        cv == rv_convert_addr(c, m, virt, FALSE, FALSE, noisy)
    IN  IF mm.hit THEN MemResult(c, m, rv_exc_none, mm.value)
        ELSE IF cv.ex # rv_exc_none
        THEN MemResult(throw_ex(c, virt, noisy), cv.m, cv.ex, 0)
        ELSE LET rd == PmRead(cv.m, cv.phys, 8, TRUE)
             IN  MemResult(c, rd.m, rv_exc_none, rd.value)

\* cpu.c:378-397
rv_write_mem8(c, m, virt, value, noisy) ==
    LET mm == try_write_memory_mapped_regs(c, virt, value, 8)
        cv == rv_convert_addr(c, m, virt, TRUE, FALSE, noisy)
    IN  IF mm.hit THEN MemResult(mm.cpu, m, rv_exc_none, 0)
        ELSE IF cv.ex # rv_exc_none
        THEN MemResult(throw_ex(c, virt, noisy), cv.m, cv.ex, 0)
        ELSE MemResult(c, PmWrite(cv.m, cv.phys, 8, value, TRUE).m,
                       rv_exc_none, 0)

\* cpu.c:399-423
rv_write_mem16(c, m, virt, value, noisy) ==
    LET mm == try_write_memory_mapped_regs(c, virt, value, 16)
        cv == rv_convert_addr(c, m, virt, TRUE, FALSE, noisy)
    IN  IF mm.hit THEN MemResult(mm.cpu, m, rv_exc_none, 0)
        ELSE IF cv.ex # rv_exc_none
        THEN MemResult(throw_ex(c, virt, noisy), cv.m, cv.ex, 0)
        ELSE IF ~IS_ALIGNED(virt, 2)
        THEN MemResult(throw_ex(c, virt, noisy), cv.m,
                       rv_exc_store_amo_address_misaligned, 0)
        ELSE MemResult(c, PmWrite(cv.m, cv.phys, 16, value, TRUE).m,
                       rv_exc_none, 0)

\* rv_write_mem32 raising the store access fault (cause 7) when physical
\* memory rejects the write
rv_write_mem32_access_fault(c, m, virt, value, noisy) ==
    LET mm == try_write_memory_mapped_regs(c, virt, value, 32)
        cv == rv_convert_addr(c, m, virt, TRUE, FALSE, noisy)
    IN  IF mm.hit THEN MemResult(mm.cpu, m, rv_exc_none, 0)
        ELSE IF cv.ex # rv_exc_none
        THEN MemResult(throw_ex(c, virt, noisy), cv.m, cv.ex, 0)
        ELSE IF ~IS_ALIGNED(virt, 4)
        THEN MemResult(throw_ex(c, virt, noisy), cv.m,
                       rv_exc_store_amo_address_misaligned, 0)
        ELSE LET wr == PmWrite(cv.m, cv.phys, 32, value, TRUE)
             IN  IF wr.ok THEN MemResult(c, wr.m, rv_exc_none, 0)
                 ELSE MemResult(throw_ex(c, virt, noisy), wr.m, 7, 0)

\* cpu.c:426-449
rv_write_mem32(c, m, virt, value, noisy) ==
    LET mm == try_write_memory_mapped_regs(c, virt, value, 32)
        cv == rv_convert_addr(c, m, virt, TRUE, FALSE, noisy)
    IN  IF mm.hit THEN MemResult(mm.cpu, m, rv_exc_none, 0)
        ELSE IF cv.ex # rv_exc_none
        THEN MemResult(throw_ex(c, virt, noisy), cv.m, cv.ex, 0)
        ELSE IF ~IS_ALIGNED(virt, 4)
        THEN MemResult(throw_ex(c, virt, noisy), cv.m,
                       rv_exc_store_amo_address_misaligned, 0)
        ELSE MemResult(c, PmWrite(cv.m, cv.phys, 32, value, TRUE).m,
                       rv_exc_none, 0)

(***************************************************************************)
(* The decoded-instruction cache (cpu.c:14-95, 121-128).  cache is the     *)
(* list rv_instruction_cache; an item is [addr, instrs] with one decoded   *)
(* executor per instruction slot of the frame at addr.                     *)
(***************************************************************************)
\* the executor the decoder selects for a word, by its major opcode
rv_instr_decode(word) ==
    LET opcode == word % 128
    IN  IF opcode = 19 THEN "op_imm"
        ELSE IF opcode = 111 THEN "jal"
        ELSE IF opcode = 35 THEN "store"
        ELSE IF opcode = 115 THEN "system"
        ELSE "illegal"

\* FRAME_SIZE / sizeof(rv_instr_t)
FrameSlots == FRAME_SIZE \div 4

\* cpu.c:20, counted from 1
PHYS2CACHEINSTR(phys) == ((phys % FRAME_SIZE) \div 4) + 1

\* cache_hit comparing the item address with phys itself
cache_hit_unaligned(cch, phys) ==
    LET hits == {i \in 1..Len(cch) : cch[i].addr = phys}
    IN  IF hits = {} THEN 0 ELSE CHOOSE i \in hits : \A j \in hits : i <= j

\* cache_hit, cpu.c:30-40: the position of the first item of the frame of
\* phys, 0 when there is none
cache_hit(cch, phys) ==
    LET hits == {i \in 1..Len(cch) : cch[i].addr = ALIGN_DOWN(phys, FRAME_SIZE)}
    IN  IF hits = {} THEN 0 ELSE CHOOSE i \in hits : \A j \in hits : i <= j

\* the reads of cache_item_page_decode, slots 1..n of the frame at addr
RECURSIVE page_reads(_, _, _)
page_reads(m, addr, n) ==
    IF n = 0 THEN m
    ELSE PmRead(page_reads(m, addr, n - 1), addr + ((n - 1) * 4), 32, FALSE).m

\* cache_item_page_decode, cpu.c:42-48
cache_item_page_decode(m, addr) ==
    [m |-> page_reads(m, addr, FrameSlots),
     instrs |-> [i \in 1..FrameSlots |->
                   rv_instr_decode(physmem_read(m.pm, addr + ((i - 1) * 4), 32))]]

\* what fetch_instr and its callees return: memory, cache, the executor and
\* whether an ASSERT failed
Fetched(m, cch, func, aborted) ==
    [m |-> m, cache |-> cch, func |-> func, aborted |-> aborted]

SetValid(m, frame) == [m EXCEPT !.pm.valid[frame] = TRUE]

\* update_cache_item trusting the item whatever the valid bit says
update_cache_item_never_decode(m, cch, i) ==
    Fetched(m, cch, "", physmem_find_frame(m.pm, cch[i].addr) = -1)

\* update_cache_item decoding the frame on every hit
update_cache_item_always_decode(m, cch, i) ==
    LET frame == physmem_find_frame(m.pm, cch[i].addr)
        dec == cache_item_page_decode(m, cch[i].addr)
    IN  IF frame = -1 THEN Fetched(m, cch, "", TRUE)
        ELSE Fetched(SetValid(dec.m, frame),
                     [cch EXCEPT ![i].instrs = dec.instrs], "", FALSE)

\* update_cache_item, cpu.c:50-60, for the item at position i
update_cache_item(m, cch, i) ==
    LET frame == physmem_find_frame(m.pm, cch[i].addr)
        dec == cache_item_page_decode(m, cch[i].addr)
    IN  IF frame = -1 THEN Fetched(m, cch, "", TRUE)
        ELSE IF m.pm.valid[frame] THEN Fetched(m, cch, "", FALSE)
        ELSE Fetched(SetValid(dec.m, frame),
                     [cch EXCEPT ![i].instrs = dec.instrs], "", FALSE)

\* cache_try_add, cpu.c:62-77; the cache is unchanged when it returns NULL
cache_try_add(m, cch, phys) ==
    LET frame == physmem_find_frame(m.pm, phys)
        addr == ALIGN_DOWN(phys, FRAME_SIZE)
        dec == cache_item_page_decode(m, addr)
    IN  IF frame = -1 THEN Fetched(m, cch, "", FALSE)
        ELSE Fetched(SetValid(dec.m, frame),
                     Append(cch, [addr |-> addr, instrs |-> dec.instrs]),
                     "", FALSE)

\* fetch_instr, cpu.c:79-95
fetch_instr(m, cch, phys) ==
    LET hit == cache_hit(cch, phys)
        upd == update_cache_item(m, cch, hit)
        add == cache_try_add(m, cch, phys)
        rd == PmRead(m, phys, 32, TRUE)
    IN  IF hit # 0
        THEN IF upd.aborted THEN upd
             ELSE [upd EXCEPT !.func = upd.cache[hit].instrs[PHYS2CACHEINSTR(phys)]]
        ELSE IF Len(add.cache) # Len(cch)
        THEN [add EXCEPT !.func =
                 add.cache[Len(add.cache)].instrs[PHYS2CACHEINSTR(phys)]]
        ELSE Fetched(rd.m, cch, rv_instr_decode(rd.value), FALSE)

\* rv_cpu_done, cpu.c:121-128: items are removed from the head until the
\* list is empty
RECURSIVE rv_cpu_done(_)
rv_cpu_done(cch) == IF cch = <<>> THEN cch ELSE rv_cpu_done(Tail(cch))

(***************************************************************************)
(* rv_cpu_step (cpu.c:739-766), in two positions: "idle" before line 744   *)
(* and "executed" at line 750 (execute and account done).                  *)
(***************************************************************************)
\* step_finish advancing pc in standby too
step_finish_ignore_stdby(c) ==
    [c EXCEPT !.pc = c.pc_next, !.pc_next = U32(c.pc_next + 4),
              !.regs[0] = 0, !.tval_next = 0]

\* step_finish computing pc_next from the pc of the executed instruction
step_finish_old_pc(c) ==
    LET c1 == IF ~c.stdby
              THEN [c EXCEPT !.pc = c.pc_next, !.pc_next = U32(c.pc + 4)]
              ELSE c
    IN  [c1 EXCEPT !.regs[0] = 0, !.tval_next = 0]

\* step_finish without the reset of x0
step_finish_keep_x0(c) ==
    LET c1 == IF ~c.stdby
              THEN [c EXCEPT !.pc = c.pc_next, !.pc_next = U32(c.pc_next + 4)]
              ELSE c
    IN  [c1 EXCEPT !.tval_next = 0]

\* cpu.c:758-765
step_finish(c) ==
    LET c1 == IF ~c.stdby
              THEN [c EXCEPT !.pc = c.pc_next, !.pc_next = U32(c.pc_next + 4)]
              ELSE c
    IN  [c1 EXCEPT !.regs[0] = 0, !.tval_next = 0]

\* cpu.c:750-756
step_trap(c, e) ==
    IF e # rv_exc_none THEN handle_exception(c, e) ELSE try_handle_interrupt(c)

WalkResults == {rv_exc_none, rv_exc_instruction_page_fault}
Deltas == {0, MaxTime}

rv_cpu_step_execute ==
    /\ phase = "idle"
    /\ steps < MaxSteps
    /\ \E i \in Instrs,
          walk \in (IF satp_active(cpu) THEN WalkResults ELSE {rv_exc_none}),
          delta \in Deltas :
         /\ cpu.mtime + delta <= MaxTime
         /\ LET c0 == [cpu EXCEPT !.trapped = <<>>]
                r == IF ~c0.stdby THEN execute(c0, walk, i)
                     ELSE Result(c0, rv_exc_none)
            IN  /\ cpu' = account(r.cpu, r.ex # rv_exc_none, delta)
                /\ ex' = r.ex
                /\ instr_data' = IF (~c0.stdby) /\ convert_fetch(c0, walk) = rv_exc_none
                                 THEN i ELSE NoInstr
    /\ phase' = "executed"
    /\ steps' = steps + 1
    /\ UNCHANGED memvars

rv_cpu_step_deliver ==
    /\ phase = "executed"
    /\ LET c1 == step_trap(cpu, ex)
       IN  IF c1.aborted
           THEN cpu' = c1 /\ phase' = "aborted"
           ELSE cpu' = step_finish(c1) /\ phase' = "idle"
    /\ UNCHANGED <<ex, instr_data, steps>>
    /\ UNCHANGED memvars

(***************************************************************************)
(* Host interface, called between steps.                                   *)
(***************************************************************************)
\* rv_cpu_set_pc accepting every 2-byte aligned value
rv_cpu_set_pc_half_aligned(c, value) ==
    IF value % 2 # 0 THEN c
    ELSE [c EXCEPT !.pc = value, !.pc_next = U32(value + 4)]

\* rv_cpu_set_pc, cpu.c:453-463
rv_cpu_set_pc(c, value) ==
    IF value % 4 # 0 THEN c
    ELSE [c EXCEPT !.pc = value, !.pc_next = U32(value + 4)]

\* cpu.c:797-802 and 823-828: default to MEI if no is invalid
interrupt_no(no) ==
    IF /\ no # RV_INTERRUPT_NO(rv_exc_machine_software_interrupt)
       /\ no # RV_INTERRUPT_NO(rv_exc_supervisor_software_interrupt)
       /\ no # RV_INTERRUPT_NO(rv_exc_machine_external_interrupt)
    THEN RV_INTERRUPT_NO(rv_exc_machine_external_interrupt)
    ELSE no

\* rv_interrupt_up raising SEI in csr.mip like the other interrupts
rv_interrupt_up_seip_in_mip(c, no) ==
    IF no = RV_INTERRUPT_NO(rv_exc_supervisor_external_interrupt)
    THEN [c EXCEPT !.mip = SetMaskBit(@, no)]
    ELSE [c EXCEPT !.mip = SetMaskBit(@, interrupt_no(no))]

\* rv_interrupt_up, cpu.c:786-807
rv_interrupt_up(c, no) ==
    IF no = RV_INTERRUPT_NO(rv_exc_supervisor_external_interrupt)
    THEN [c EXCEPT !.external_SEIP = TRUE]
    ELSE [c EXCEPT !.mip = SetMaskBit(@, interrupt_no(no))]

\* rv_interrupt_down, cpu.c:809-833
rv_interrupt_down(c, no) ==
    IF no = RV_INTERRUPT_NO(rv_exc_supervisor_external_interrupt)
    THEN [c EXCEPT !.external_SEIP = FALSE]
    ELSE [c EXCEPT !.mip = ClearMaskBit(@, interrupt_no(no))]

\* the interrupt numbers devices raise in the model
IntNumbers == {11}
InterruptUp ==
    /\ phase = "idle"
    /\ \E no \in IntNumbers : cpu' = rv_interrupt_up(cpu, no)
    /\ UNCHANGED <<ex, instr_data, phase, steps>>
    /\ UNCHANGED memvars

InterruptDown ==
    /\ phase = "idle"
    /\ \E no \in IntNumbers : cpu' = rv_interrupt_down(cpu, no)
    /\ UNCHANGED <<ex, instr_data, phase, steps>>
    /\ UNCHANGED memvars

(***************************************************************************)
(* rv_cpu_init (cpu.c:98-119): everything zero, pc at the start address,   *)
(* machine mode.                                                           *)
(***************************************************************************)
rv_cpu_init ==
    [pc |-> RV_START_ADDRESS, pc_next |-> U32(RV_START_ADDRESS + 4),
     regs |-> [r \in 0..(NRegs - 1) |-> 0],
     priv_mode |-> rv_mmode, stdby |-> FALSE,
     mstatus |-> 0, mie |-> 0, mip |-> 0, mideleg |-> 0, medeleg |-> 0,
     mtvec |-> 0, stvec |-> 0, satp |-> 0,
     mepc |-> 0, mcause |-> 0, mtval |-> 0,
     sepc |-> 0, scause |-> 0, stval |-> 0,
     tval_next |-> 0,
     mtime |-> 0, mtimecmp |-> 0, cycle |-> 0, scyclecmp |-> 0,
     instret |-> 0, mcountinhibit |-> 0,
     hpmcounters |-> [i \in HpmCounters |-> 0],
     hpmevents |-> [i \in HpmCounters |-> "hpm_no_event"],
     external_SEIP |-> FALSE,
     reserved_addr |-> 0, reserved_valid |-> FALSE,
     trapped |-> <<>>, aborted |-> FALSE]

Init ==
    /\ cpu = rv_cpu_init
    /\ ex = rv_exc_none
    /\ instr_data = NoInstr
    /\ phase = "idle"
    /\ steps = 0
    /\ pm = NoMemory
    /\ cache = <<>>
    /\ call = NoCall

Next ==
    \/ rv_cpu_step_execute
    \/ rv_cpu_step_deliver
    \/ InterruptUp
    \/ InterruptDown

Spec == Init /\ [][Next]_vars

(***************************************************************************)
(* The memory interface of one hart over a page table: the inputs of       *)
(* rv_convert_addr, rv_read_mem* and rv_write_mem* are drawn from the sets *)
(* below, and each action is one call.                                     *)
(***************************************************************************)
MkStatus(mprv, mpp, sum, mxr) ==
    (mprv * (2 ^ rv_csr_mstatus_mprv_pos)) + (mpp * (2 ^ rv_csr_mstatus_mpp_pos))
    + (sum * (2 ^ rv_csr_sstatus_sum_pos)) + (mxr * (2 ^ rv_csr_sstatus_mxr_pos))

MmuStatus ==
    {MkStatus(0, rv_umode, sum, mxr) : sum \in {0, 1}, mxr \in {0, 1}}
    \cup {MkStatus(1, mpp, sum, mxr) :
            mpp \in {rv_umode, rv_smode, rv_mmode}, sum \in {0, 1}, mxr \in {0, 1}}

\* satp: bare, or Sv32 with the root table in page 1
MmuSatp == {0, (2 ^ (XLEN - 1)) + 1}

Pte(flags, ppn) == flags + (1024 * ppn)

\* v|r|u, v|r|w|x, v|r|w|x|u, v|x, and v|w (reserved)
LeafFlags == {19, 15, 31, 9, 5}

MegaPpn == 3 * (2 ^ VPN0_BITS)
LeafPpn == MegaPpn + 5

\* the level-1 entry: invalid, a pointer to the table in page 2, a megapage,
\* a misaligned megapage
Level1Ptes ==
    {0, Pte(1, 2), Pte(19, LeafPpn)} \cup {Pte(f, MegaPpn) : f \in LeafFlags}

\* the level-0 entry: invalid, a pointer, a 4 KiB leaf
Level0Ptes == {0, Pte(1, 2)} \cup {Pte(f, LeafPpn) : f \in LeafFlags}

\* VPN1 = 1, VPN0 = 2, and an offset aligned for 4, for 2, for 1
MmuVirts ==
    {(1 * (2 ^ (PAGESIZE + VPN0_BITS))) + (2 * (2 ^ PAGESIZE)) + off :
        off \in {16, 18, 17}}

\* page tables for MmuVirts, a word of data behind the 4 KiB leaf and one at
\* the untranslated address; nothing is mapped behind the megapage
MmuMemory(pte1, pte0) ==
    [mem |-> ((1 * (2 ^ PAGESIZE)) + (1 * PTESIZE) :> pte1)
             @@ ((2 * (2 ^ PAGESIZE)) + (2 * PTESIZE) :> pte0)
             @@ ((LeafPpn * (2 ^ PAGESIZE)) + 16 :> 1234)
             @@ ((1 * (2 ^ (PAGESIZE + VPN0_BITS))) + (2 * (2 ^ PAGESIZE)) + 16
                    :> 1234),
     valid |-> (ALIGN_DOWN((1 * (2 ^ PAGESIZE)) + (1 * PTESIZE), FRAME_SIZE) :> TRUE)
               @@ (ALIGN_DOWN((2 * (2 ^ PAGESIZE)) + (2 * PTESIZE), FRAME_SIZE)
                      :> TRUE)]

MmuInit ==
    /\ \E priv \in {rv_umode, rv_smode, rv_mmode}, st \in MmuStatus,
          satp \in MmuSatp :
         cpu = [rv_cpu_init EXCEPT !.priv_mode = priv, !.mstatus = st,
                                   !.satp = satp]
    /\ \E pte1 \in Level1Ptes, pte0 \in Level0Ptes :
         /\ (pte1 # Pte(1, 2) \/ rv_csr_satp_is_bare(cpu)) => pte0 = 0
         /\ rv_csr_satp_is_bare(cpu) => pte1 = 0
         /\ pm = MmuMemory(pte1, pte0)
    /\ ex = rv_exc_none
    /\ instr_data = NoInstr
    /\ phase = "idle"
    /\ steps = 0
    /\ cache = <<>>
    /\ call = NoCall

\* Each behaviour is one call on the drawn cpu and memory.
ConvertAddr ==
    /\ call = NoCall
    /\ \E virt \in MmuVirts, wr \in BOOLEAN, fetch \in BOOLEAN, noisy \in BOOLEAN :
         /\ ~(wr /\ fetch)
         /\ LET cv == rv_convert_addr(cpu, MemCtx(pm), virt, wr, fetch, noisy)
            IN  /\ cpu' = sc_snoop(cpu, cv.m.log)
                /\ pm' = cv.m.pm
                /\ call' = Call("rv_convert_addr", virt, 0, 0, wr, fetch, noisy,
                                cv.ex, IF cv.set THEN cv.phys ELSE -1, 0,
                                cv.m.log)
    /\ UNCHANGED <<ex, instr_data, phase, steps, cache>>

ReadMem32 ==
    /\ call = NoCall
    /\ \E virt \in MmuVirts, fetch \in BOOLEAN, noisy \in BOOLEAN :
         LET r == rv_read_mem32(cpu, MemCtx(pm), virt, fetch, noisy)
         IN  /\ cpu' = sc_snoop(r.cpu, r.m.log)
             /\ pm' = r.m.pm
             /\ call' = Call("rv_read_mem", virt, 0, 32, FALSE, fetch, noisy,
                             r.ex, 0, r.out, r.m.log)
    /\ UNCHANGED <<ex, instr_data, phase, steps, cache>>

ReadMem16 ==
    /\ call = NoCall
    /\ \E virt \in MmuVirts, fetch \in BOOLEAN, noisy \in BOOLEAN :
         LET r == rv_read_mem16(cpu, MemCtx(pm), virt, fetch, noisy)
         IN  /\ cpu' = sc_snoop(r.cpu, r.m.log)
             /\ pm' = r.m.pm
             /\ call' = Call("rv_read_mem", virt, 0, 16, FALSE, fetch, noisy,
                             r.ex, 0, r.out, r.m.log)
    /\ UNCHANGED <<ex, instr_data, phase, steps, cache>>

ReadMem8 ==
    /\ call = NoCall
    /\ \E virt \in MmuVirts, noisy \in BOOLEAN :
         LET r == rv_read_mem8(cpu, MemCtx(pm), virt, noisy)
         IN  /\ cpu' = sc_snoop(r.cpu, r.m.log)
             /\ pm' = r.m.pm
             /\ call' = Call("rv_read_mem", virt, 0, 8, FALSE, FALSE, noisy,
                             r.ex, 0, r.out, r.m.log)
    /\ UNCHANGED <<ex, instr_data, phase, steps, cache>>

WriteMem8 ==
    /\ call = NoCall
    /\ \E virt \in MmuVirts, noisy \in BOOLEAN :
         LET r == rv_write_mem8(cpu, MemCtx(pm), virt, 7, noisy)
         IN  /\ cpu' = sc_snoop(r.cpu, r.m.log)
             /\ pm' = r.m.pm
             /\ call' = Call("rv_write_mem", virt, 7, 8, TRUE, FALSE, noisy,
                             r.ex, 0, r.out, r.m.log)
    /\ UNCHANGED <<ex, instr_data, phase, steps, cache>>

WriteMem16 ==
    /\ call = NoCall
    /\ \E virt \in MmuVirts, noisy \in BOOLEAN :
         LET r == rv_write_mem16(cpu, MemCtx(pm), virt, 7, noisy)
         IN  /\ cpu' = sc_snoop(r.cpu, r.m.log)
             /\ pm' = r.m.pm
             /\ call' = Call("rv_write_mem", virt, 7, 16, TRUE, FALSE, noisy,
                             r.ex, 0, r.out, r.m.log)
    /\ UNCHANGED <<ex, instr_data, phase, steps, cache>>

WriteMem32 ==
    /\ call = NoCall
    /\ \E virt \in MmuVirts, noisy \in BOOLEAN :
         LET r == rv_write_mem32(cpu, MemCtx(pm), virt, 7, noisy)
         IN  /\ cpu' = sc_snoop(r.cpu, r.m.log)
             /\ pm' = r.m.pm
             /\ call' = Call("rv_write_mem", virt, 7, 32, TRUE, FALSE, noisy,
                             r.ex, 0, r.out, r.m.log)
    /\ UNCHANGED <<ex, instr_data, phase, steps, cache>>

MmuNext ==
    \/ ConvertAddr
    \/ ReadMem32
    \/ ReadMem16
    \/ ReadMem8
    \/ WriteMem8
    \/ WriteMem16
    \/ WriteMem32

MmuSpec == MmuInit /\ [][MmuNext]_vars


(***************************************************************************)
(* The host interface between steps: the debugger's rv_cpu_set_pc and the  *)
(* devices' rv_interrupt_up / rv_interrupt_down, on a cpu whose mip may    *)
(* already hold bits set by software (SEIP, STIP).                         *)
(***************************************************************************)
\* the `no` arguments: SSI, MSI, STI, MTI, SEI, MEI, and two that name no
\* interrupt
HostIntNumbers == {1, 3, 5, 7, 9, 11, 0, 12}

\* the values handed to rv_cpu_set_pc
HostPcValues == {0, 8192, W32 - 4, 8194, 8193, 3}

HostInit ==
    /\ \E mip \in {0, (2 ^ 9) + (2 ^ 5)} : cpu = [rv_cpu_init EXCEPT !.mip = mip]
    /\ ex = rv_exc_none
    /\ instr_data = NoInstr
    /\ phase = "idle"
    /\ steps = 0
    /\ pm = NoMemory
    /\ cache = <<>>
    /\ call = NoCall

HostSetPc ==
    /\ \E value \in HostPcValues :
         /\ cpu' = rv_cpu_set_pc(cpu, value)
         /\ call' = Call("rv_cpu_set_pc", value, 0, 0, FALSE, FALSE, FALSE,
                         rv_exc_none, 0, 0, <<>>)
    /\ UNCHANGED <<ex, instr_data, phase, steps, pm, cache>>

HostInterruptUp ==
    /\ \E no \in HostIntNumbers :
         /\ cpu' = rv_interrupt_up(cpu, no)
         /\ call' = Call("rv_interrupt_up", no, 0, 0, FALSE, FALSE, FALSE,
                         rv_exc_none, 0, 0, <<>>)
    /\ UNCHANGED <<ex, instr_data, phase, steps, pm, cache>>

HostInterruptDown ==
    /\ \E no \in HostIntNumbers :
         /\ cpu' = rv_interrupt_down(cpu, no)
         /\ call' = Call("rv_interrupt_down", no, 0, 0, FALSE, FALSE, FALSE,
                         rv_exc_none, 0, 0, <<>>)
    /\ UNCHANGED <<ex, instr_data, phase, steps, pm, cache>>

HostNext ==
    \/ HostSetPc
    \/ HostInterruptUp
    \/ HostInterruptDown

HostSpec == HostInit /\ [][HostNext]_vars


(***************************************************************************)
(* rv_cpu_step on a hart that runs in S-mode under Sv32, so that the fetch *)
(* of an instruction goes through the page-table walk: the handlers are at *)
(* mtvec = 0x100 and stvec = 0x800 and instruction page faults are         *)
(* delegated or not.                                                       *)
(***************************************************************************)
FetchInit ==
    /\ \E deleg \in {0, 2 ^ rv_exc_instruction_page_fault} :
         cpu = [rv_cpu_init EXCEPT !.priv_mode = rv_smode,
                                   !.satp = (2 ^ (XLEN - 1)) + 1,
                                   !.medeleg = deleg,
                                   !.mtvec = 256, !.stvec = 2048]
    /\ ex = rv_exc_none
    /\ instr_data = NoInstr
    /\ phase = "idle"
    /\ steps = 0
    /\ pm = NoMemory
    /\ cache = <<>>
    /\ call = NoCall

FetchSpec == FetchInit /\ [][Next]_vars


(***************************************************************************)
(* Instruction fetches interleaved with stores through physical memory and *)
(* with rv_cpu_done.  RAM is the two frames at 0 and FRAME_SIZE, zeroed;   *)
(* one word of a region without frames is mapped at 4096.                  *)
(***************************************************************************)
\* the addresses stored to and fetched from in RAM
CacheAddrs == {0, 4, FRAME_SIZE}

\* the address fetched from outside RAM
CacheNonRam == 2 ^ PAGESIZE

\* the instruction words stored
CacheWords == {19, 111}

CacheMemory(valid0, valid1) ==
    [mem |-> [a \in {4 * k : k \in 0..((2 * FrameSlots) - 1)} \cup {CacheNonRam}
                |-> IF a = CacheNonRam THEN 19 ELSE 0],
     valid |-> (0 :> valid0) @@ (FRAME_SIZE :> valid1)]

CacheInit ==
    /\ cpu = rv_cpu_init
    /\ ex = rv_exc_none
    /\ instr_data = NoInstr
    /\ phase = "idle"
    /\ steps = 0
    /\ \E valid0 \in BOOLEAN, valid1 \in BOOLEAN : pm = CacheMemory(valid0, valid1)
    /\ cache = <<>>
    /\ call = NoCall

CacheFetch ==
    /\ ~cpu.aborted
    /\ \E phys \in CacheAddrs \cup {CacheNonRam} :
         LET r == fetch_instr(MemCtx(pm), cache, phys)
         IN  /\ cpu' = [cpu EXCEPT !.aborted = r.aborted]
             /\ pm' = r.m.pm
             /\ cache' = r.cache
             /\ call' = Call("fetch_instr", phys, 0, 32, FALSE, TRUE, TRUE,
                             rv_exc_none, phys, r.func, r.m.log)
    /\ UNCHANGED <<ex, instr_data, phase, steps>>

\* a store by this hart, another hart or the debugger
CacheWrite ==
    /\ ~cpu.aborted
    /\ \E addr \in CacheAddrs, value \in CacheWords :
         LET wr == PmWrite(MemCtx(pm), addr, 32, value, TRUE)
         IN  /\ cpu' = sc_snoop(cpu, wr.m.log)
             /\ pm' = wr.m.pm
             /\ call' = Call("physmem_write", addr, value, 32, TRUE, FALSE, TRUE,
                             rv_exc_none, addr, "", wr.m.log)
    /\ UNCHANGED <<ex, instr_data, phase, steps, cache>>

CacheDone ==
    /\ ~cpu.aborted
    /\ cache' = rv_cpu_done(cache)
    /\ call' = Call("rv_cpu_done", 0, 0, 0, FALSE, FALSE, FALSE,
                    rv_exc_none, 0, "", <<>>)
    /\ UNCHANGED <<cpu, ex, instr_data, phase, steps, pm>>

CacheNext ==
    \/ CacheFetch
    \/ CacheWrite
    \/ CacheDone

CacheSpec == CacheInit /\ [][CacheNext]_vars


(***************************************************************************)
(* LR.w / SC.w of one hart in M-mode without translation, interleaved with *)
(* stores by any hart or the debugger.  The executors are lr_w and sc_w;   *)
(* out is the value they write to rd.  phase is the hart's position in its *)
(* LR/SC sequence: "idle", "lr_done" after an LR.w, "lr_broken" once a     *)
(* store has landed in the word of that LR.w; instr_data is the last       *)
(* LR.w or SC.w executed, its address in imm.                              *)
(***************************************************************************)
\* LR.w: reserved_addr = align_down(phys, 4), reserved_valid = true
lr_w(c, m, virt) ==
    LET cv == rv_convert_addr(c, m, virt, FALSE, FALSE, TRUE)
        rd == PmRead(cv.m, cv.phys, 32, TRUE)
    IN  IF cv.ex # rv_exc_none THEN MemResult(throw_ex(c, virt, TRUE), cv.m, cv.ex, 0)
        ELSE IF ~IS_ALIGNED(virt, 4)
        THEN MemResult(throw_ex(c, virt, TRUE), cv.m,
                       rv_exc_load_address_misaligned, 0)
        ELSE MemResult([c EXCEPT !.reserved_addr = ALIGN_DOWN(cv.phys, 4),
                                 !.reserved_valid = TRUE],
                       rd.m, rv_exc_none, rd.value)

\* SC.w: succeeds iff reserved_valid and reserved_addr = align_down(phys, 4);
\* on success the word is stored and rd = 0, otherwise rd = 1
sc_w(c, m, virt, value) ==
    LET cv == rv_convert_addr(c, m, virt, TRUE, FALSE, TRUE)
    IN  IF cv.ex # rv_exc_none THEN MemResult(throw_ex(c, virt, TRUE), cv.m, cv.ex, 0)
        ELSE IF ~IS_ALIGNED(virt, 4)
        THEN MemResult(throw_ex(c, virt, TRUE), cv.m,
                       rv_exc_store_amo_address_misaligned, 0)
        ELSE IF c.reserved_valid /\ c.reserved_addr = ALIGN_DOWN(cv.phys, 4)
        THEN MemResult(c, PmWrite(cv.m, cv.phys, 32, value, TRUE).m, rv_exc_none, 0)
        ELSE MemResult(c, cv.m, rv_exc_none, 1)

\* the words LR.w and SC.w address
LrscWords == {64, 68}

\* address and width of the other stores
LrscStores == {<<64, 32>>, <<68, 32>>, <<66, 16>>, <<67, 8>>, <<70, 8>>}

LrscInit ==
    /\ cpu = rv_cpu_init
    /\ ex = rv_exc_none
    /\ instr_data = NoInstr
    /\ phase = "idle"
    /\ steps = 0
    /\ pm = [mem |-> (64 :> 0) @@ (68 :> 0),
             valid |-> (ALIGN_DOWN(64, FRAME_SIZE) :> FALSE)
                       @@ (ALIGN_DOWN(68, FRAME_SIZE) :> FALSE)]
    /\ cache = <<>>
    /\ call = NoCall

LoadReserved ==
    /\ \E virt \in LrscWords :
         LET r == lr_w(cpu, MemCtx(pm), virt)
         IN  /\ cpu' = sc_snoop(r.cpu, r.m.log)
             /\ pm' = r.m.pm
             /\ instr_data' = Instr("lr_w", 47, 0, "", virt)
             /\ call' = Call("lr_w", virt, 0, 32, FALSE, FALSE, TRUE,
                             r.ex, virt, r.out, r.m.log)
    /\ phase' = "lr_done"
    /\ UNCHANGED <<ex, steps, cache>>

StoreConditional ==
    /\ \E virt \in LrscWords :
         LET r == sc_w(cpu, MemCtx(pm), virt, 9)
         IN  /\ cpu' = sc_snoop(r.cpu, r.m.log)
             /\ pm' = r.m.pm
             /\ instr_data' = Instr("sc_w", 47, 0, "", virt)
             /\ call' = Call("sc_w", virt, 9, 32, TRUE, FALSE, TRUE,
                             r.ex, virt, r.out, r.m.log)
    /\ phase' = "idle"
    /\ UNCHANGED <<ex, steps, cache>>

\* a store through physical memory by this hart, another hart or the
\* debugger
Store ==
    /\ \E st \in LrscStores :
         LET wr == PmWrite(MemCtx(pm), st[1], st[2], 7, TRUE)
         IN  /\ cpu' = sc_snoop(cpu, wr.m.log)
             /\ pm' = wr.m.pm
             /\ call' = Call("physmem_write", st[1], 7, st[2], TRUE, FALSE, TRUE,
                             rv_exc_none, st[1], 0, wr.m.log)
             /\ phase' = IF /\ phase = "lr_done"
                            /\ ALIGN_DOWN(st[1], 4) = ALIGN_DOWN(instr_data.imm, 4)
                         THEN "lr_broken" ELSE phase
    /\ UNCHANGED <<ex, instr_data, steps, cache>>

LrscNext ==
    \/ LoadReserved
    \/ StoreConditional
    \/ Store

LrscSpec == LrscInit /\ [][LrscNext]_vars


(***************************************************************************)
(* Interrupt delivery: one rv_cpu_step of a hart whose interrupt state was *)
(* set up by software (privilege, mstatus.MIE/SIE, mie, mideleg, medeleg,  *)
(* the trap vectors, the timer compare registers, a software-written       *)
(* mip.SEIP, possibly waiting in WFI), with the devices raising and        *)
(* lowering their interrupt lines before the step.                         *)
(***************************************************************************)
IntInit ==
    /\ \E ps \in {<<rv_mmode, 0>>, <<rv_mmode, 2 ^ rv_csr_mstatus_mie_pos>>,
                  <<rv_smode, 0>>, <<rv_smode, 2 ^ rv_csr_sstatus_sie_pos>>,
                  <<rv_umode, 0>>},
          \* mie (all six, or MSIE | SEIE | STIE), mtvec and stvec (vectored
          \* at 0x100 and 0x800, or direct)
          ie \in {<<2730, 257, 2049>>, <<552, 256, 2048>>},
          deleg \in {<<0, 0>>, <<512, 260>>, <<546, 260>>},  \* mideleg, medeleg
          cmp \in {<<0, W32 - 1>>, <<W32 - 1, 0>>, <<W32 - 1, W32 - 1>>},
          seip \in {0, 2 ^ RV_INTERRUPT_NO(rv_exc_supervisor_external_interrupt)},
          wfi \in BOOLEAN :
         cpu = [rv_cpu_init EXCEPT !.priv_mode = ps[1], !.mstatus = ps[2],
                                   !.mie = ie[1],
                                   !.mideleg = deleg[1], !.medeleg = deleg[2],
                                   !.mtvec = ie[2], !.stvec = ie[3],
                                   !.mtimecmp = cmp[1], !.scyclecmp = cmp[2],
                                   !.mip = seip,
                                   !.stdby = wfi]
    /\ ex = rv_exc_none
    /\ instr_data = NoInstr
    /\ phase = "idle"
    /\ steps = MaxSteps - 1
    /\ pm = NoMemory
    /\ cache = <<>>
    /\ call = NoCall

\* the interrupt lines move before the step
IntInterruptUp ==
    /\ phase = "idle" /\ steps < MaxSteps
    /\ \E no \in HostIntNumbers : cpu' = rv_interrupt_up(cpu, no)
    /\ UNCHANGED <<ex, instr_data, phase, steps>>
    /\ UNCHANGED memvars

IntInterruptDown ==
    /\ phase = "idle" /\ steps < MaxSteps
    /\ \E no \in HostIntNumbers : cpu' = rv_interrupt_down(cpu, no)
    /\ UNCHANGED <<ex, instr_data, phase, steps>>
    /\ UNCHANGED memvars

IntNext ==
    \/ rv_cpu_step_execute
    \/ rv_cpu_step_deliver
    \/ IntInterruptUp
    \/ IntInterruptDown

IntSpec == IntInit /\ [][IntNext]_vars


(***************************************************************************)
(* The memory-mapped timer registers: one rv_write_mem* or rv_read_mem*    *)
(* call at an address in or next to MTIME and MTIMECMP, a write possibly   *)
(* followed by the read of what it wrote.  Ordinary memory lies under the  *)
(* registers, so an access that is not served by a register is seen in the *)
(* log of physical-memory accesses (or ends in an exception).              *)
(***************************************************************************)
\* the 16 bytes of the two registers and the words before and after them
TimerVirts == {RV_MTIME_ADDRESS + o : o \in 0..15}
              \cup {RV_MTIME_ADDRESS - 4, RV_MTIMECMP_ADDRESS + 8}

TimerWidths == {8, 16, 32}

\* values written: all ones, and a pattern
TimerValues(width) == {(2 ^ AccessBits(width)) - 1, 5}

rv_read_mem(c, m, virt, width, noisy) ==
    CASE width = 32 -> rv_read_mem32(c, m, virt, FALSE, noisy)
      [] width = 16 -> rv_read_mem16(c, m, virt, FALSE, noisy)
      [] width = 8 -> rv_read_mem8(c, m, virt, noisy)

rv_write_mem(c, m, virt, width, value, noisy) ==
    CASE width = 32 -> rv_write_mem32(c, m, virt, value, noisy)
      [] width = 16 -> rv_write_mem16(c, m, virt, value, noisy)
      [] width = 8 -> rv_write_mem8(c, m, virt, value, noisy)

TimerInit ==
    /\ \E priv \in {rv_umode, rv_smode, rv_mmode},
          st \in {MkStatus(0, rv_umode, 0, 0), MkStatus(1, rv_umode, 0, 0),
                  MkStatus(1, rv_mmode, 0, 0)},
          satp \in MmuSatp :
         cpu = [rv_cpu_init EXCEPT !.priv_mode = priv, !.mstatus = st,
                                   !.satp = satp,
                                   !.mtime = 123456789 % W64,
                                   !.mtimecmp = 234567890 % W64]
    /\ pm = [mem |-> [a \in {RV_MTIME_ADDRESS + o : o \in {0, 4, 8, 12}} |-> 1234],
             valid |-> [f \in {ALIGN_DOWN(RV_MTIME_ADDRESS + o, FRAME_SIZE) :
                                 o \in {0, 4, 8, 12}} |-> FALSE]]
    /\ ex = rv_exc_none
    /\ instr_data = NoInstr
    /\ phase = "idle"
    /\ steps = 0
    /\ cache = <<>>
    /\ call = NoCall

TimerWrite ==
    /\ call = NoCall
    /\ \E virt \in TimerVirts, width \in TimerWidths, noisy \in BOOLEAN :
         \E value \in TimerValues(width) :
           LET r == rv_write_mem(cpu, MemCtx(pm), virt, width, value, noisy)
           IN  /\ cpu' = sc_snoop(r.cpu, r.m.log)
               /\ pm' = r.m.pm
               /\ call' = Call("rv_write_mem", virt, value, width, TRUE, FALSE,
                               noisy, r.ex, 0, r.out, r.m.log)
    /\ UNCHANGED <<ex, instr_data, phase, steps, cache>>

\* the first call, or the read that follows a write at the same address with
\* the same width
TimerRead ==
    /\ call.op # "rv_read_mem"
    /\ \E virt \in TimerVirts, width \in TimerWidths, noisy \in BOOLEAN :
         /\ call # NoCall => (virt = call.addr /\ width = call.width /\ noisy)
         /\ LET r == rv_read_mem(cpu, MemCtx(pm), virt, width, noisy)
            IN  /\ cpu' = sc_snoop(r.cpu, r.m.log)
                /\ pm' = r.m.pm
                /\ call' = Call("rv_read_mem", virt, 0, width, FALSE, FALSE,
                                noisy, r.ex, 0, r.out, r.m.log)
    /\ UNCHANGED <<ex, instr_data, phase, steps, cache>>

TimerNext ==
    \/ TimerWrite
    \/ TimerRead

TimerSpec == TimerInit /\ [][TimerNext]_vars


(***************************************************************************)
(* One rv_cpu_step from every configuration of the counters (privilege,    *)
(* waiting in WFI or not, mcountinhibit, the events selected in hpmevents, *)
(* counters about to wrap) and of the trap vectors (mtvec and stvec in a   *)
(* legal mode or a reserved one, exceptions and timer interrupts delegated *)
(* or not).                                                                *)
(***************************************************************************)
HpmEvents ==
    <<"hpm_no_event", "hpm_u_cycles", "hpm_s_cycles", "hpm_m_cycles", "hpm_w_cycles">>

\* mcountinhibit: nothing, cycle, instret, both, hpm counters 0 and 2, all
\* hpm counters
StepInhibits == {0, 1, 4, 5, 40, W32 - 8}

\* mtvec, stvec, medeleg, mie, mideleg, mtimecmp, scyclecmp:
\* direct vectors at 0 with no interrupt enabled; reserved modes 2 and 3 with
\* the illegal instruction and the U-mode ecall delegated; the same vectors
\* with the machine timer interrupt pending; the same with the delegated
\* supervisor timer interrupt pending
StepTraps ==
    {<<0, 0, 0, 0, 0, W32 - 1, W32 - 1>>,
     <<258, 2051, 260, 0, 0, W32 - 1, W32 - 1>>,
     <<258, 2051, 0, 2730, 546, 0, W32 - 1>>,
     <<259, 2050, 0, 2730, 546, W32 - 1, 0>>}

StepInit ==
    /\ \E priv \in {rv_umode, rv_smode, rv_mmode},
          wfi \in BOOLEAN,
          inhibit \in StepInhibits,
          k \in 0..4,
          base \in {0, W64 - 1},
          mpp \in {rv_umode, rv_smode},
          t \in StepTraps :
         cpu = [rv_cpu_init EXCEPT
                   !.priv_mode = priv, !.stdby = wfi,
                   !.mstatus = mpp * (2 ^ rv_csr_mstatus_mpp_pos),
                   !.mtvec = t[1], !.stvec = t[2], !.medeleg = t[3],
                   !.mie = t[4], !.mideleg = t[5],
                   !.mtimecmp = t[6], !.scyclecmp = t[7],
                   !.mcountinhibit = inhibit,
                   !.cycle = base, !.instret = base,
                   !.hpmcounters = [i \in HpmCounters |-> base],
                   !.hpmevents = [i \in HpmCounters |-> HpmEvents[((i + k) % 5) + 1]]]
    /\ ex = rv_exc_none
    /\ instr_data = NoInstr
    /\ phase = "idle"
    /\ steps = MaxSteps - 1
    /\ pm = NoMemory
    /\ cache = <<>>
    /\ call = NoCall

StepNext ==
    \/ rv_cpu_step_execute
    \/ rv_cpu_step_deliver

StepSpec == StepInit /\ [][StepNext]_vars



(***************************************************************************)
(* Properties.  In a step of rv_cpu_step_deliver the unprimed state is the *)
(* state at cpu.c:750 (instruction executed, accounting done) and the      *)
(* primed state is the state after the step.                               *)
(***************************************************************************)
Delivering == phase = "executed"

\* the trap call the step made, "none" when it made none
TrapTaken(c) == IF c.trapped = <<>> THEN "none" ELSE c.trapped[1][1]
TrapCause(c) == IF c.trapped = <<>> THEN rv_exc_none ELSE c.trapped[1][2]

MTI == RV_INTERRUPT_NO(rv_exc_machine_timer_interrupt)
MSI == RV_INTERRUPT_NO(rv_exc_machine_software_interrupt)
MEI == RV_INTERRUPT_NO(rv_exc_machine_external_interrupt)
STI == RV_INTERRUPT_NO(rv_exc_supervisor_timer_interrupt)

\* C1: after any trap into M-mode, mstatus.MPP is the priv_mode held just
\* before the trap, mstatus.MPIE is the MIE held just before it, MIE is 0 and
\* priv_mode is M.
C1_MTrapSavesStatus ==
    [][(Delivering /\ TrapTaken(cpu') = "m") =>
          /\ rv_csr_mstatus_mpp(cpu') = cpu.priv_mode
          /\ rv_csr_mstatus_mpie(cpu') = rv_csr_mstatus_mie(cpu)
          /\ ~rv_csr_mstatus_mie(cpu')
          /\ cpu'.priv_mode = rv_mmode]_vars

\* an M-mode trap taken from S-mode with MIE set
C1_Witness ==
    /\ phase = "idle"
    /\ TrapTaken(cpu) = "m"
    /\ rv_csr_mstatus_mpp(cpu) = rv_smode
    /\ rv_csr_mstatus_mpie(cpu)
    /\ cpu.priv_mode = rv_mmode

\* C2: an exception of a step is taken by s_trap iff its medeleg bit is set
\* and priv_mode is not M, and by m_trap otherwise; an ECALL from U-mode with
\* medeleg bit 8 set and stvec direct ends with priv_mode S, sepc the pc of
\* the ECALL, scause 8, pc the stvec base and SPP = U.
C2_Delegation ==
    [][(Delivering /\ ex # rv_exc_none) =>
          /\ TrapTaken(cpu') =
                (IF Bit(cpu.medeleg, ex) = 1 /\ cpu.priv_mode # rv_mmode
                 THEN "s" ELSE "m")
          /\ (/\ ex = rv_exc_umode_environment_call
              /\ cpu.priv_mode = rv_umode
              /\ Bit(cpu.medeleg, 8) = 1
              /\ TvecMode(cpu.stvec) = rv_csr_mtvec_mode_direct)
             => /\ cpu'.priv_mode = rv_smode
                /\ cpu'.sepc = cpu.pc
                /\ cpu'.scause = 8
                /\ cpu'.pc = TvecBase(cpu.stvec)
                /\ rv_csr_sstatus_spp(cpu') = rv_umode]_vars

\* the delegated ECALL from U-mode with stvec = 0x800
C2_Witness ==
    /\ phase = "idle"
    /\ ex = rv_exc_umode_environment_call
    /\ cpu.trapped = <<<<"s", rv_exc_umode_environment_call>>>>
    /\ cpu.priv_mode = rv_smode
    /\ cpu.scause = 8
    /\ cpu.pc = 2048
    /\ rv_csr_sstatus_spp(cpu) = rv_umode

\* C3: a step makes at most one trap call; when the instruction produced an
\* exception that exception is the one trapped and no interrupt is delivered;
\* otherwise at most one interrupt is delivered.
C3_OneTrapPerStep ==
    [][Delivering =>
          /\ Len(cpu'.trapped) <= 1
          /\ (ex # rv_exc_none =>
                 Len(cpu'.trapped) = 1 /\ TrapCause(cpu') = ex)
          /\ (ex = rv_exc_none /\ cpu'.trapped # <<>> =>
                 IsInterrupt(TrapCause(cpu')))]_vars

\* an ECALL from U-mode trapped while the machine timer interrupt was pending
\* and enabled
C3_Witness ==
    /\ phase = "idle"
    /\ ex = rv_exc_umode_environment_call
    /\ cpu.trapped = <<<<"m", rv_exc_umode_environment_call>>>>
    /\ rv_csr_mstatus_mpp(cpu) = rv_umode
    /\ Bit(cpu.mip, MTI) = 1
    /\ Bit(cpu.mie, MTI) = 1

\* C4: after a step that takes no trap and ends out of standby, pc is the
\* pc_next the executor left (the pre-step pc_next when it wrote none) and
\* pc_next is pc + 4 modulo the word size.
C4_PcAdvance ==
    [][/\ (Delivering /\ phase' = "idle" /\ cpu'.trapped = <<>> /\ ~cpu'.stdby) =>
             /\ cpu'.pc = cpu.pc_next
             /\ cpu'.pc_next = (cpu'.pc + 4) % W32
       /\ (phase = "idle" /\ phase' = "executed"
             /\ instr_data'.op \notin {"jump", "mret"}) =>
             cpu'.pc_next = cpu.pc_next]_vars

\* a jump to the last word: pc_next wraps to 0
C4_Witness ==
    /\ phase = "idle"
    /\ instr_data.op = "jump"
    /\ cpu.trapped = <<>>
    /\ ~cpu.stdby
    /\ cpu.pc = W32 - 4
    /\ cpu.pc_next = 0

\* C5: regs[0] is 0 after every rv_cpu_step.
C5_ZeroRegister ==
    phase = "idle" => cpu.regs[0] = 0

\* a step that wrote 5 to x0 and took an interrupt
C5_Witness ==
    /\ phase = "idle"
    /\ instr_data.op = "alu" /\ instr_data.rd = 0 /\ instr_data.imm = 5
    /\ cpu.trapped # <<>>
    /\ cpu.regs[0] = 0

\* C6: on every M-mode trap mepc is pc_next for an interrupt and pc for an
\* exception, mcause is the cause (with the interrupt bit) and mtval is
\* tval_next.
C6_MTrapCause ==
    [][(Delivering /\ TrapTaken(cpu') = "m") =>
          /\ (ex # rv_exc_none => cpu'.mcause = ex /\ cpu'.mepc = cpu.pc)
          /\ (ex = rv_exc_none =>
                 IsInterrupt(cpu'.mcause) /\ cpu'.mepc = cpu.pc_next)
          /\ cpu'.mcause = TrapCause(cpu')
          /\ cpu'.mtval = cpu.tval_next]_vars

\* an illegal instruction (mret in U-mode, at pc 4) trapped with its word in
\* mtval
C6_Witness ==
    /\ phase = "idle"
    /\ TrapTaken(cpu) = "m"
    /\ instr_data.op = "mret"
    /\ cpu.mcause = rv_exc_illegal_instruction
    /\ cpu.mtval = 115
    /\ cpu.mepc = 4

\* C7: after a step that takes an M-mode trap pc is the mtvec base in direct
\* mode; in vectored mode it is base + 4 * cause for an interrupt and base
\* for an exception; standby is cleared.
C7_MTrapVector ==
    [][(/\ Delivering /\ TrapTaken(cpu') = "m"
        /\ TvecMode(cpu.mtvec) \in {rv_csr_mtvec_mode_direct,
                                    rv_csr_mtvec_mode_vectored}) =>
          /\ ~cpu'.stdby
          /\ cpu'.pc =
               (IF TvecMode(cpu.mtvec) = rv_csr_mtvec_mode_direct
                THEN TvecBase(cpu.mtvec)
                ELSE IF IsInterrupt(cpu'.mcause)
                THEN U32(TvecBase(cpu.mtvec) + 4 * RV_INTERRUPT_NO(cpu'.mcause))
                ELSE TvecBase(cpu.mtvec))]_vars

\* the machine timer interrupt with mtvec = 0x100 vectored: pc = 0x100 + 4*7
C7_Witness ==
    /\ phase = "idle"
    /\ TrapTaken(cpu) = "m"
    /\ cpu.mtvec = 257
    /\ cpu.mcause = rv_exc_machine_timer_interrupt
    /\ cpu.pc = 284

\* C8: when the executor returns illegal_instruction the trap's tval is the
\* instruction word, its epc the pc of the instruction and its cause 2; word
\* 0 at pc 0x2000 in M-mode with mtvec 0x100 direct gives mcause 2, mepc
\* 0x2000, mtval 0, pc 0x100, priv_mode M, MPP M.
C8_IllegalInstruction ==
    [][(Delivering /\ ex = rv_exc_illegal_instruction) =>
          /\ (TrapTaken(cpu') = "m" =>
                 /\ cpu'.mtval = instr_data.val
                 /\ cpu'.mepc = cpu.pc
                 /\ cpu'.mcause = 2)
          /\ (TrapTaken(cpu') = "s" =>
                 /\ cpu'.stval = instr_data.val
                 /\ cpu'.sepc = cpu.pc
                 /\ cpu'.scause = 2)
          /\ TrapTaken(cpu') # "none"
          /\ (/\ instr_data.val = 0 /\ cpu.pc = 8192
              /\ cpu.priv_mode = rv_mmode /\ cpu.mtvec = 256)
             => /\ cpu'.mcause = 2 /\ cpu'.mepc = 8192 /\ cpu'.mtval = 0
                /\ cpu'.pc = 256 /\ cpu'.priv_mode = rv_mmode
                /\ rv_csr_mstatus_mpp(cpu') = rv_mmode]_vars

\* word 0 executed at pc 0x2000 in M-mode with mtvec = 0x100
C8_Witness ==
    /\ phase = "idle"
    /\ ex = rv_exc_illegal_instruction
    /\ instr_data.op = "illegal" /\ instr_data.val = 0
    /\ cpu.mcause = 2 /\ cpu.mepc = 8192 /\ cpu.mtval = 0
    /\ cpu.pc = 256 /\ cpu.priv_mode = rv_mmode
    /\ rv_csr_mstatus_mpp(cpu) = rv_mmode

\* C9: at the end of every rv_cpu_step mip.MTIP is set iff mtime >= mtimecmp
\* and mip.STIP is set iff the low word of cycle >= scyclecmp.
C9_TimerPending ==
    (phase = "idle" /\ steps > 0) =>
        /\ (Bit(cpu.mip, MTI) = 1) = (cpu.mtime >= cpu.mtimecmp)
        /\ (Bit(cpu.mip, STI) = 1) = (U32(cpu.cycle) >= cpu.scyclecmp)

\* both bits clear, cycle beyond one word: only its low word is compared
C9_Witness ==
    /\ phase = "idle" /\ steps > 0
    /\ cpu.cycle >= W32 /\ cpu.scyclecmp = 2
    /\ Bit(cpu.mip, STI) = 0
    /\ cpu.mtime < cpu.mtimecmp
    /\ Bit(cpu.mip, MTI) = 0

\* C10 as stated: with priv_mode M, MIE, MTIE and mtime >= mtimecmp a step
\* without exception ends in an M-mode trap with mcause = interrupt | 7 and
\* mepc = pc_next as the instruction left it.
C10_Original ==
    [][(/\ Delivering /\ ex = rv_exc_none
        /\ cpu.priv_mode = rv_mmode /\ rv_csr_mstatus_mie(cpu)
        /\ Bit(cpu.mie, MTI) = 1
        /\ cpu.mtime >= cpu.mtimecmp) =>
          /\ cpu'.trapped = <<<<"m", rv_exc_machine_timer_interrupt>>>>
          /\ cpu'.mcause = rv_exc_machine_timer_interrupt
          /\ cpu'.mepc = cpu.pc_next]_vars

\* a machine interrupt n is pending, enabled and not delegated
MPendingEnabled(c, n) ==
    Bit(effective_mip(c), n) = 1 /\ Bit(c.mie, n) = 1 /\ Bit(c.mideleg, n) = 0

\* C10 amended: the same, provided the timer interrupt is not delegated and
\* no machine external or machine software interrupt is pending and enabled.
C10_TimerDelivered ==
    [][(/\ Delivering /\ ex = rv_exc_none
        /\ cpu.priv_mode = rv_mmode /\ rv_csr_mstatus_mie(cpu)
        /\ Bit(cpu.mie, MTI) = 1 /\ Bit(cpu.mideleg, MTI) = 0
        /\ cpu.mtime >= cpu.mtimecmp
        /\ ~MPendingEnabled(cpu, MEI) /\ ~MPendingEnabled(cpu, MSI)) =>
          /\ cpu'.trapped = <<<<"m", rv_exc_machine_timer_interrupt>>>>
          /\ cpu'.mcause = rv_exc_machine_timer_interrupt
          /\ cpu'.mepc = cpu.pc_next]_vars

\* mtime = 100, mtimecmp = 50: the step of a jump is interrupted and mepc is
\* the jump target
C10_Witness ==
    /\ phase = "idle"
    /\ instr_data.op = "jump" /\ instr_data.imm = 8192
    /\ cpu.trapped = <<<<"m", rv_exc_machine_timer_interrupt>>>>
    /\ cpu.mtime = 100 /\ cpu.mtimecmp = 50
    /\ cpu.mcause = rv_exc_machine_timer_interrupt
    /\ cpu.mepc = 8192
    /\ rv_csr_mstatus_mpp(cpu) = rv_mmode /\ rv_csr_mstatus_mpie(cpu)

(***************************************************************************)
(* Properties of the memory interface.  In a step of MmuSpec the unprimed  *)
(* cpu and pm are the arguments of the call and call' is its record.       *)
(***************************************************************************)
\* the level-1 entry the walk of virt reads, and the level-0 entry behind it
Level1Pte(c, p, virt) ==
    pte_from_uint(physmem_read(p,
        (rv_csr_satp_ppn(c) * (2 ^ PAGESIZE))
        + ((virt \div (2 ^ (PAGESIZE + VPN0_BITS))) * PTESIZE), 32))

Level0Pte(c, p, virt) ==
    pte_from_uint(physmem_read(p,
        (Level1Pte(c, p, virt).ppn * (2 ^ PAGESIZE))
        + (((virt \div (2 ^ PAGESIZE)) % (2 ^ VPN0_BITS)) * PTESIZE), 32))

IsMegapage(c, p, virt) ==
    is_pte_valid(Level1Pte(c, p, virt)) /\ is_pte_leaf(Level1Pte(c, p, virt))

\* virt is mapped by a valid leaf PTE
HasLeaf(c, p, virt) ==
    \/ IsMegapage(c, p, virt)
    \/ /\ is_pte_valid(Level1Pte(c, p, virt))
       /\ is_pte_valid(Level0Pte(c, p, virt))
       /\ is_pte_leaf(Level0Pte(c, p, virt))

LeafPte(c, p, virt) ==
    IF IsMegapage(c, p, virt) THEN Level1Pte(c, p, virt) ELSE Level0Pte(c, p, virt)

\* C14: every successful Sv32 translation keeps the low 12 bits of the
\* virtual address; through a megapage it keeps the low 12 + |VPN0| bits and
\* the bits above are PPN1 of the PTE; through a 4 KiB leaf the bits from 12
\* up are the PPN of the PTE.
C14_PhysFromPpn ==
    [][(call'.op = "rv_convert_addr" /\ satp_active(cpu)
        /\ call'.ex = rv_exc_none) =>
          LET virt == call'.addr
              phys == call'.phys
              low == 2 ^ PAGESIZE
              mega == 2 ^ (PAGESIZE + VPN0_BITS)
          IN  /\ phys % low = virt % low
              /\ IF IsMegapage(cpu, pm, virt)
                 THEN /\ phys % mega = virt % mega
                      /\ phys \div mega =
                           Level1Pte(cpu, pm, virt).ppn \div (2 ^ VPN0_BITS)
                 ELSE phys \div low = Level0Pte(cpu, pm, virt).ppn]_vars

\* a translation through the megapage of an address with a non-zero offset
C14_Witness ==
    /\ call.op = "rv_convert_addr" /\ call.ex = rv_exc_none
    /\ call.log # <<>>
    /\ call.addr % 4 = 1
    /\ call.phys = (MegaPpn * (2 ^ PAGESIZE)) + (2 * (2 ^ PAGESIZE)) + 17

\* the ways is_access_allowed denies by privilege, for a cpu and the PTEs of
\* every combination of v, r, w, x, u
DeniesByPrivilege(c) ==
    \A val \in 0..31, wr \in BOOLEAN, fetch \in BOOLEAN :
        LET pte == pte_from_uint(val)
        IN  /\ (sv32_effective_priv(c) = rv_smode /\ pte.u = 1
                /\ ~rv_csr_sstatus_sum(c)) => ~is_access_allowed(c, pte, wr, fetch)
            /\ (sv32_effective_priv(c) = rv_smode /\ pte.u = 1 /\ fetch)
                => ~is_access_allowed(c, pte, wr, fetch)
            /\ (sv32_effective_priv(c) = rv_umode /\ pte.u = 0)
                => ~is_access_allowed(c, pte, wr, fetch)

\* C15: with translation active at effective privilege S and SUM clear, a
\* noisy read of an address mapped by a valid leaf PTE with u = 1 and r = 1
\* returns load_page_fault and leaves tval_next at the virtual address; and
\* is_access_allowed denies S a U-page without SUM, denies S every fetch from
\* a U-page, and denies U a page with u = 0.
C15_SupervisorUserPage ==
    [][/\ DeniesByPrivilege(cpu)
       /\ (/\ call'.op = "rv_read_mem" /\ ~call'.fetch /\ call'.noisy
           /\ satp_active(cpu) /\ sv32_effective_priv(cpu) = rv_smode
           /\ ~rv_csr_sstatus_sum(cpu)
           /\ HasLeaf(cpu, pm, call'.addr)
           /\ LeafPte(cpu, pm, call'.addr).u = 1
           /\ LeafPte(cpu, pm, call'.addr).r = 1) =>
             /\ call'.ex = rv_exc_load_page_fault
             /\ cpu'.tval_next = call'.addr]_vars

\* S-mode, SUM clear, a 32-bit noisy load from the v|r|u 4 KiB page
C15_Witness ==
    /\ call.op = "rv_read_mem" /\ call.width = 32 /\ ~call.fetch /\ call.noisy
    /\ cpu.priv_mode = rv_smode /\ ~rv_csr_mstatus_mprv(cpu)
    /\ ~rv_csr_sstatus_sum(cpu) /\ satp_active(cpu)
    /\ ~IsMegapage(cpu, pm, call.addr)
    /\ HasLeaf(cpu, pm, call.addr)
    /\ uint_from_pte(Level0Pte(cpu, pm, call.addr)) = Pte(19, LeafPpn)
    /\ call.ex = rv_exc_load_page_fault
    /\ cpu.tval_next = call.addr /\ cpu.tval_next # 0

\* a 16- or 32-bit access through rv_read_mem / rv_write_mem at an address
\* misaligned for its width, outside the timer registers
MisalignedCall(cl) ==
    /\ cl.op \in {"rv_read_mem", "rv_write_mem"}
    /\ cl.width \in {16, 32}
    /\ ~IS_ALIGNED(cl.addr, cl.width \div 8)

\* the translation the call makes
CallWalk(c, p, cl) ==
    rv_convert_addr(c, MemCtx(p), cl.addr, cl.wr, cl.fetch, cl.noisy)

MisalignedException(cl) ==
    IF cl.wr THEN rv_exc_store_amo_address_misaligned
    ELSE IF cl.fetch THEN rv_exc_instruction_address_misaligned
    ELSE rv_exc_load_address_misaligned

\* C16 as stated: a misaligned access that fails translation returns the
\* page fault; one that translates returns the misaligned-address exception
\* of its kind and physical memory is not accessed.
C16_Original ==
    [][MisalignedCall(call') =>
          IF CallWalk(cpu, pm, call').ex # rv_exc_none
          THEN call'.ex = page_fault_exception(call'.wr, call'.fetch)
          ELSE /\ call'.ex = MisalignedException(call')
               /\ call'.log = <<>>]_vars

\* C16: a misaligned access that fails translation returns the page fault;
\* one that translates returns the misaligned-address exception of its kind
\* and the only accesses to physical memory are those of the page-table
\* walk: the data is neither read nor written.
C16_TranslationFirst ==
    [][MisalignedCall(call') =>
          IF CallWalk(cpu, pm, call').ex # rv_exc_none
          THEN call'.ex = page_fault_exception(call'.wr, call'.fetch)
          ELSE /\ call'.ex = MisalignedException(call')
               /\ call'.log = CallWalk(cpu, pm, call').m.log
               /\ pm' = CallWalk(cpu, pm, call').m.pm
               /\ \A i \in 1..Len(call'.log) :
                     call'.log[i].addr # CallWalk(cpu, pm, call').phys]_vars

\* a misaligned 32-bit noisy load that translates through the page table:
\* the walk has read two entries and written the leaf back
C16_Witness ==
    /\ call.op = "rv_read_mem" /\ call.width = 32 /\ ~call.fetch /\ call.noisy
    /\ call.addr % 4 = 2
    /\ call.ex = rv_exc_load_address_misaligned
    /\ Len(call.log) = 3
    /\ call.log[3].op = "write"
    /\ cpu.tval_next = call.addr

\* C20 as stated: the walk uses mstatus.MPP only when MPRV is set and the
\* access is not a fetch, and priv_mode for a fetch; translation is active
\* iff satp is not bare and that privilege is <= S; when inactive the
\* physical address is the virtual one, no memory is accessed and no fault
\* is returned (when active the walk reads at least the level-1 entry).
C20_Original ==
    [][call'.op = "rv_convert_addr" =>
          LET priv == IF rv_csr_mstatus_mprv(cpu) /\ ~call'.fetch
                      THEN rv_csr_mstatus_mpp(cpu) ELSE cpu.priv_mode
              active == (~rv_csr_satp_is_bare(cpu)) /\ priv <= rv_smode
          IN  IF active THEN call'.log # <<>>
              ELSE /\ call'.phys = call'.addr
                   /\ call'.log = <<>>
                   /\ call'.ex = rv_exc_none
                   /\ pm' = pm]_vars

\* a fetch translated from M-mode with MPRV set and MPP = U: the walk runs
\* and faults
C20_Witness ==
    /\ call.op = "rv_convert_addr" /\ call.fetch
    /\ cpu.priv_mode = rv_mmode
    /\ rv_csr_mstatus_mprv(cpu) /\ rv_csr_mstatus_mpp(cpu) = rv_umode
    /\ ~rv_csr_satp_is_bare(cpu)
    /\ call.log # <<>>
    /\ call.ex = rv_exc_instruction_page_fault

(***************************************************************************)
(* Properties of the host interface (HostSpec).                            *)
(***************************************************************************)
\* the bits set in a word
SetBits(x) == {b \in 0..(XLEN - 1) : Bit(x, b) = 1}

\* the mip bit that rv_interrupt_up / rv_interrupt_down act on for `no`
\* other than SEI
TargetBit(no) == IF no \in {MSI, 1, MEI} THEN no ELSE MEI

SEI == RV_INTERRUPT_NO(rv_exc_supervisor_external_interrupt)

\* C17: rv_interrupt_up with the SEI number sets external_SEIP and leaves
\* csr.mip alone; with MSI, SSI or MEI it sets exactly that bit of mip; with
\* any other number exactly the MEI bit.  rv_interrupt_down clears the same
\* way, so up then down with one number leaves that bit (or external_SEIP)
\* clear and every other bit of mip as it was.
C17_InterruptLines ==
    [][/\ call'.op = "rv_interrupt_up" =>
            IF call'.addr = SEI
            THEN cpu' = [cpu EXCEPT !.external_SEIP = TRUE]
            ELSE /\ SetBits(cpu'.mip) = SetBits(cpu.mip) \cup {TargetBit(call'.addr)}
                 /\ cpu' = [cpu EXCEPT !.mip = cpu'.mip]
       /\ call'.op = "rv_interrupt_down" =>
            IF call'.addr = SEI
            THEN cpu' = [cpu EXCEPT !.external_SEIP = FALSE]
            ELSE /\ SetBits(cpu'.mip) = SetBits(cpu.mip) \ {TargetBit(call'.addr)}
                 /\ cpu' = [cpu EXCEPT !.mip = cpu'.mip]
       /\ \A no \in HostIntNumbers :
            LET down == rv_interrupt_down(rv_interrupt_up(cpu, no), no)
            IN  IF no = SEI
                THEN down = [cpu EXCEPT !.external_SEIP = FALSE]
                ELSE /\ SetBits(down.mip) = SetBits(cpu.mip) \ {TargetBit(no)}
                     /\ down = [cpu EXCEPT !.mip = down.mip]]_vars

\* the SEI line has gone up and down again beside a raised MEI: SEIP and
\* STIP of csr.mip are as software left them
C17_Witness ==
    /\ call.op = "rv_interrupt_down" /\ call.addr = SEI
    /\ ~cpu.external_SEIP
    /\ SetBits(cpu.mip) = {5, 9, MEI}

\* C18: rv_cpu_set_pc with a 4-byte aligned value sets pc to it and pc_next
\* to value + 4 modulo 2^32; with any other value it changes nothing of
\* the cpu.
C18_SetPc ==
    [][call'.op = "rv_cpu_set_pc" =>
          IF call'.addr % 4 = 0
          THEN /\ cpu'.pc = call'.addr
               /\ cpu'.pc_next = (call'.addr + 4) % W32
          ELSE cpu' = cpu]_vars

\* the pc set to the last word of the address space, pc_next wrapped to 0
C18_Witness ==
    /\ call.op = "rv_cpu_set_pc" /\ call.addr = W32 - 4
    /\ cpu.pc = W32 - 4 /\ cpu.pc_next = 0

(***************************************************************************)
(* Properties of the instruction fetch (FetchSpec).                        *)
(***************************************************************************)
\* C19 as stated: when the translation of pc for the fetch of a step faults,
\* the step traps with the fault's exception code, and the trap's tval
\* (mtval, or stval if delegated) and its epc both equal pc.
C19_Original ==
    [][(Delivering /\ ex = rv_exc_instruction_page_fault) =>
          /\ TrapTaken(cpu') # "none"
          /\ TrapCause(cpu') = rv_exc_instruction_page_fault
          /\ (TrapTaken(cpu') = "m" =>
                 /\ cpu'.mcause = rv_exc_instruction_page_fault
                 /\ cpu'.mepc = cpu.pc
                 /\ cpu'.mtval = cpu.pc)
          /\ (TrapTaken(cpu') = "s" =>
                 /\ cpu'.scause = rv_exc_instruction_page_fault
                 /\ cpu'.sepc = cpu.pc
                 /\ cpu'.stval = cpu.pc)]_vars

\* a fetch page fault at the start address, taken in M-mode with mtval = 0
C19_Witness ==
    /\ phase = "idle"
    /\ ex = rv_exc_instruction_page_fault
    /\ cpu.trapped = <<<<"m", rv_exc_instruction_page_fault>>>>
    /\ cpu.mcause = rv_exc_instruction_page_fault
    /\ cpu.mepc = RV_START_ADDRESS
    /\ cpu.mtval = 0
    /\ cpu.pc = 256

(***************************************************************************)
(* Properties of the decoded-instruction cache (CacheSpec).  In a step of  *)
(* CacheFetch the unprimed pm and cache are those fetch_instr is called    *)
(* on, and call' holds the executor it returns and the reads it made.      *)
(***************************************************************************)
InRam(p, addr) == physmem_find_frame(p, addr) # -1

\* the words of the frame of addr, decoded
FrameDecoded(p, addr) ==
    [i \in 1..FrameSlots |->
        rv_instr_decode(physmem_read(p, ALIGN_DOWN(addr, FRAME_SIZE)
                                        + ((i - 1) * 4), 32))]

\* the reads that decode the whole frame of addr, in order
FrameReads(addr) ==
    [i \in 1..FrameSlots |->
        Access("read", ALIGN_DOWN(addr, FRAME_SIZE) + ((i - 1) * 4), 32,
               FALSE, TRUE)]

\* C11: whatever stores and fetches came before, the executor fetch_instr
\* returns for an address in RAM is the decode of the word stored there at
\* the time of the fetch, never a stale decoded entry.
C11_FetchSeesMemory ==
    [][(call'.op = "fetch_instr" /\ InRam(pm, call'.addr)) =>
          /\ call'.out = rv_instr_decode(physmem_read(pm, call'.addr, 32))
          /\ pm'.mem = pm.mem]_vars

\* frame 0 was cached, then its first word was overwritten (RAM starts
\* zeroed), frame 1 was cached later, and this fetch re-decoded frame 0 in
\* place and returned the executor of the new word
C11_Witness ==
    /\ call.op = "fetch_instr" /\ call.addr = 0
    /\ Len(cache) = 2 /\ cache[1].addr = 0 /\ cache[2].addr = FRAME_SIZE
    /\ call.log # <<>>
    /\ pm.mem[0] = 111
    /\ call.out = "jal"

\* C12: on a hit with the frame's valid bit false the whole frame is decoded
\* again into the entry and valid is set before the slot is returned; on a
\* hit with valid true nothing is decoded; on a miss in RAM a new entry is
\* decoded and valid set; so the slot returned always belongs to an entry
\* whose frame is valid.
C12_ValidBeforeUse ==
    [][(call'.op = "fetch_instr" /\ InRam(pm, call'.addr)) =>
          LET addr == call'.addr
              frame == physmem_find_frame(pm, addr)
              hit == cache_hit(cache, addr)
          IN  /\ pm'.valid[frame]
              /\ cache_hit(cache', addr) # 0
              /\ call'.out =
                   cache'[cache_hit(cache', addr)].instrs[PHYS2CACHEINSTR(addr)]
              /\ (hit # 0 /\ ~pm.valid[frame]) =>
                    /\ call'.log = FrameReads(addr)
                    /\ cache' = [cache EXCEPT ![hit].instrs = FrameDecoded(pm, addr)]
              /\ (hit # 0 /\ pm.valid[frame]) =>
                    /\ call'.log = <<>>
                    /\ cache' = cache
                    /\ pm' = pm
              /\ hit = 0 =>
                    /\ call'.log = FrameReads(addr)
                    /\ cache' = Append(cache, [addr |-> frame,
                                               instrs |-> FrameDecoded(pm, addr)])]_vars

\* a fetch that hit a valid frame: the cached executor of a stored word is
\* returned without a read
C12_Witness ==
    /\ call.op = "fetch_instr" /\ call.addr = 4
    /\ call.log = <<>>
    /\ Len(cache) = 1 /\ cache[1].addr = 0
    /\ pm.valid[0]
    /\ pm.mem[4] = 19
    /\ call.out = "op_imm"

(***************************************************************************)
(* Properties of the LR/SC reservation (LrscSpec).                         *)
(***************************************************************************)
\* the SC.w of call' addresses the word of the pending LR.w
PairedSc ==
    /\ call'.op = "sc_w"
    /\ instr_data.op = "lr_w"
    /\ ALIGN_DOWN(call'.addr, 4) = ALIGN_DOWN(instr_data.imm, 4)

\* C13: after any store that rv_sc_access is called for with an address in
\* the reserved word, reserved_valid is false, so the SC.w to that word that
\* follows fails and writes 1 to rd; with no store to the reserved word
\* between LR.w and SC.w the SC.w succeeds, writes 0 and stores its value.
C13_Reservation ==
    [][/\ (/\ call'.op = "physmem_write"
           /\ ALIGN_DOWN(call'.addr, 4) = cpu.reserved_addr)
          => ~cpu'.reserved_valid
       /\ (PairedSc /\ phase = "lr_broken") =>
             /\ call'.out = 1
             /\ pm'.mem = pm.mem
       /\ (PairedSc /\ phase = "lr_done") =>
             /\ call'.out = 0
             /\ pm'.mem[call'.addr] = call'.value]_vars

\* LR.w of word 64, a byte stored into that word, and the SC.w has failed
C13_Witness ==
    /\ call.op = "sc_w" /\ call.addr = 64 /\ call.out = 1
    /\ cpu.reserved_addr = 64 /\ ~cpu.reserved_valid
    /\ pm.mem[64] = 7 * (2 ^ (3 * BYTE_BITS))
    /\ pm.mem[68] = 0

(***************************************************************************)
(* Properties of interrupt delivery (IntSpec).                             *)
(***************************************************************************)
SSI == RV_INTERRUPT_NO(rv_exc_supervisor_software_interrupt)

\* the interrupt numbers, highest priority first
IntPriority == <<MEI, MSI, MTI, SEI, SSI, STI>>
IntRank(n) == CHOOSE k \in 1..Len(IntPriority) : IntPriority[k] = n

\* (mip | external SEIP) & mie & ~mideleg
MSet(c) == {n \in {MEI, MSI, MTI, SEI, SSI, STI} : MPendingEnabled(c, n)}

\* (priv_mode = M and mstatus.MIE) or priv_mode < M
MTrapPossible(c) ==
    \/ c.priv_mode = rv_mmode /\ Bit(c.mstatus, rv_csr_mstatus_mie_pos) = 1
    \/ c.priv_mode \in {rv_umode, rv_smode}

\* C21: in a step without exception in which M-mode trapping is possible, the
\* one trap taken is an M-mode trap for the member of
\* (mip | external SEIP) & mie & ~mideleg that comes first in the order MEI,
\* MSI, MTI, SEI, SSI, STI, whenever that set is not empty (so no S-mode
\* interrupt is taken then), and no M-mode trap is taken when it is empty.
C21_MachineInterruptPriority ==
    [][(Delivering /\ ex = rv_exc_none /\ MTrapPossible(cpu)) =>
          /\ MSet(cpu) # {} =>
                /\ Len(cpu'.trapped) = 1
                /\ TrapTaken(cpu') = "m"
                /\ IsInterrupt(TrapCause(cpu'))
                /\ RV_INTERRUPT_NO(TrapCause(cpu')) \in MSet(cpu)
                /\ \A n \in MSet(cpu) :
                      IntRank(RV_INTERRUPT_NO(TrapCause(cpu'))) <= IntRank(n)
          /\ MSet(cpu) = {} => TrapTaken(cpu') # "m"]_vars

\* from U-mode the machine software interrupt was taken while the machine
\* timer interrupt and a delegated supervisor software interrupt were pending
\* and enabled too
C21_Witness ==
    /\ phase = "idle"
    /\ cpu.trapped = <<<<"m", rv_exc_machine_software_interrupt>>>>
    /\ rv_csr_mstatus_mpp(cpu) = rv_umode
    /\ Bit(cpu.mip, MTI) = 1 /\ Bit(cpu.mie, MTI) = 1 /\ Bit(cpu.mideleg, MTI) = 0
    /\ Bit(cpu.mip, SSI) = 1 /\ Bit(cpu.mie, SSI) = 1 /\ Bit(cpu.mideleg, SSI) = 1
    /\ Bit(cpu.mip, MEI) = 0

\* (mip | external SEIP) & mie & S-mask
SSet(c) ==
    {n \in {SEI, SSI, STI} : Bit(effective_mip(c), n) = 1 /\ Bit(c.mie, n) = 1}

\* (priv_mode = S and sstatus.SIE) or priv_mode < S
STrapPossible(c) ==
    \/ c.priv_mode = rv_smode /\ Bit(c.mstatus, rv_csr_sstatus_sie_pos) = 1
    \/ c.priv_mode = rv_umode

C23_STrap ==
    [][(Delivering /\ TrapTaken(cpu') = "s" /\ phase' = "idle") =>
          LET e == TrapCause(cpu')
              base == (cpu.stvec \div 4) * 4
              vectored == cpu.stvec % 4 = 1
          IN  /\ ex # rv_exc_none => e = ex
              /\ cpu'.sepc = IF IsInterrupt(e) THEN cpu.pc_next ELSE cpu.pc
              /\ cpu'.scause = e
              /\ cpu'.stval = cpu.tval_next
              /\ Bit(cpu'.mstatus, rv_csr_sstatus_spie_pos)
                    = Bit(cpu.mstatus, rv_csr_sstatus_sie_pos)
              /\ Bit(cpu'.mstatus, rv_csr_sstatus_sie_pos) = 0
              /\ Bit(cpu'.mstatus, rv_csr_sstatus_spp_pos) = cpu.priv_mode
              /\ cpu'.priv_mode = rv_smode
              /\ cpu'.pc = IF vectored /\ IsInterrupt(e)
                           THEN U32(base + 4 * (e - RV_INTERRUPT_EXC_BITS))
                           ELSE base]_vars

\* the supervisor timer interrupt taken from U-mode during a jump, stvec
\* vectored at 0x800: the handler is at 0x800 + 4 * 5 and sepc is the jump
\* target
C23_Witness ==
    /\ phase = "idle"
    /\ cpu.trapped = <<<<"s", rv_exc_supervisor_timer_interrupt>>>>
    /\ instr_data.op = "jump" /\ cpu.sepc = 8192
    /\ cpu.stvec = 2049 /\ cpu.pc = 2068
    /\ cpu.scause = rv_exc_supervisor_timer_interrupt
    /\ rv_csr_sstatus_spp(cpu) = rv_umode
    /\ cpu.priv_mode = rv_smode

\* the interrupts raised through rv_interrupt_up and not lowered since
Raised(c) ==
    {n \in {MEI, MSI, SSI} : Bit(c.mip, n) = 1}
    \cup (IF c.external_SEIP THEN {SEI} ELSE {})

\* interrupt n is enabled in mie and the privilege and global-enable rules let
\* it be taken
Deliverable(c, n) ==
    /\ Bit(c.mie, n) = 1
    /\ \/ Bit(c.mideleg, n) = 0 /\ MTrapPossible(c)
       \/ n \in {SEI, SSI, STI} /\ STrapPossible(c)

\* C24 as stated: a hart in standby with an interrupt raised through
\* rv_interrupt_up is woken after finitely many steps.  A standby step
\* executes nothing, so it changes neither priv_mode nor mstatus: a step that
\* leaves the hart in standby in a state where neither M-mode nor S-mode
\* trapping is possible is followed only by steps that do the same.
C24_Original ==
    [][(Delivering /\ cpu.stdby /\ Raised(cpu) # {}) =>
          \/ ~cpu'.stdby
          \/ MTrapPossible(cpu')
          \/ STrapPossible(cpu')]_vars

\* C24 amended: a step that starts in standby with an interrupt raised
\* through rv_interrupt_up that is enabled in mie and can be taken under the
\* privilege and global-enable rules takes a trap and clears stdby; a standby
\* step that takes no trap leaves stdby set, priv_mode and mstatus as they
\* were.
C24_DeliverableWakes ==
    [][(Delivering /\ cpu.stdby) =>
          /\ (\E n \in Raised(cpu) : Deliverable(cpu, n)) =>
                (~cpu'.stdby /\ TrapTaken(cpu') # "none")
          /\ TrapTaken(cpu') = "none" =>
                /\ cpu'.stdby
                /\ cpu'.priv_mode = cpu.priv_mode
                /\ cpu'.mstatus = cpu.mstatus]_vars

\* the step of a hart in standby took the raised machine external interrupt:
\* no instruction was executed, stdby is clear and mepc is the pc_next of the
\* waiting hart
C24_Witness ==
    /\ phase = "idle" /\ steps = MaxSteps
    /\ instr_data = NoInstr
    /\ cpu.trapped = <<<<"m", rv_exc_machine_external_interrupt>>>>
    /\ ~cpu.stdby
    /\ cpu.mepc = U32(RV_START_ADDRESS + 4)
    /\ cpu.instret = 0

(***************************************************************************)
(* Standby.                                                                *)
(***************************************************************************)
\* the fields of the hart a standby step without a trap must leave alone
Frozen(c) == <<c.pc, c.pc_next, c.priv_mode, c.regs, c.stdby>>

C30_ExternalSEIP ==
    [][/\ Bit(cpu'.mip, SEI) = Bit(cpu.mip, SEI)
       /\ cpu'.external_SEIP # cpu.external_SEIP => cpu'.mip = cpu.mip
       /\ (/\ Delivering /\ ex = rv_exc_none
           /\ cpu.external_SEIP /\ Bit(cpu.mie, SEI) = 1) =>
             /\ (/\ Bit(cpu.mideleg, SEI) = 0 /\ MTrapPossible(cpu)
                 /\ MSet(cpu) \cap {MEI, MSI, MTI} = {}) =>
                   cpu'.trapped = <<<<"m", rv_exc_supervisor_external_interrupt>>>>
             /\ (/\ Bit(cpu.mideleg, SEI) = 1 /\ STrapPossible(cpu)
                 /\ MSet(cpu) = {}) =>
                   cpu'.trapped = <<<<"s", rv_exc_supervisor_external_interrupt>>>>
       /\ (/\ Delivering
           /\ ~cpu.external_SEIP /\ Bit(cpu.mip, SEI) = 0) =>
             TrapCause(cpu') # rv_exc_supervisor_external_interrupt]_vars

\* the external line is up, csr.mip.SEIP is clear, and the delegated
\* interrupt was taken in S-mode from U-mode
C30_Witness ==
    /\ phase = "idle"
    /\ cpu.trapped = <<<<"s", rv_exc_supervisor_external_interrupt>>>>
    /\ cpu.external_SEIP /\ Bit(cpu.mip, SEI) = 0
    /\ cpu.scause = rv_exc_supervisor_external_interrupt
    /\ rv_csr_sstatus_spp(cpu) = rv_umode

(***************************************************************************)
(* Properties of the timer registers (TimerSpec).                          *)
(***************************************************************************)
\* the call is a read or write inside MTIME or MTIMECMP
TimerCall(cl) ==
    /\ cl.op \in {"rv_read_mem", "rv_write_mem"}
    /\ cl.addr - (cl.addr % 8) \in {RV_MTIME_ADDRESS, RV_MTIMECMP_ADDRESS}

\* the call ended without exception and without touching physical memory
ServedByRegister(cl) == cl.ex = rv_exc_none /\ cl.log = <<>>

NaturallyAligned(cl) == cl.addr % (cl.width \div 8) = 0

\* mstatus.MPP when MPRV is set, else priv_mode
MprvPrivilege(c) ==
    IF Bit(c.mstatus, rv_csr_mstatus_mprv_pos) = 1
    THEN (c.mstatus \div (2 ^ rv_csr_mstatus_mpp_pos)) % 4
    ELSE c.priv_mode

\* C26 as stated: a read or write inside MTIME or MTIMECMP is served by the
\* register iff mstatus.MPP (when MPRV is set, else priv_mode) is M and the
\* address is naturally aligned; otherwise mtime and mtimecmp are left alone
\* and the access goes through translation to physical memory.
C26_Original ==
    [][(TimerCall(call') /\ call' # call) =>
          /\ ServedByRegister(call') <=>
                (MprvPrivilege(cpu) = rv_mmode /\ NaturallyAligned(call'))
          /\ ~ServedByRegister(call') =>
                /\ cpu'.mtime = cpu.mtime
                /\ cpu'.mtimecmp = cpu.mtimecmp]_vars

\* in M-mode with satp bare, MPRV set and MPP = U, a word written to MTIMECMP
\* went into the register
C26_Witness ==
    /\ call.op = "rv_write_mem" /\ call.addr = RV_MTIMECMP_ADDRESS
    /\ call.width = 32 /\ call.value = 5
    /\ cpu.priv_mode = rv_mmode /\ cpu.satp = 0
    /\ Bit(cpu.mstatus, rv_csr_mstatus_mprv_pos) = 1
    /\ (cpu.mstatus \div (2 ^ rv_csr_mstatus_mpp_pos)) % 4 = rv_umode
    /\ call.log = <<>> /\ call.ex = rv_exc_none
    /\ cpu.mtimecmp % W32 = 5
    /\ pm.mem[RV_MTIMECMP_ADDRESS] = 1234

\* bit position of the byte at offset o of a register (8 * o for 8-bit
\* bytes), and the number of bits of a `width` access at o that the register
\* has
TimerBitPos(o) == (XLEN * (o \div 4)) + (BYTE_BITS * (o % 4))
TimerBitCount(o, width) ==
    IF TimerBitPos(o) >= DLEN THEN 0
    ELSE IF TimerBitPos(o) + AccessBits(width) > DLEN
    THEN DLEN - TimerBitPos(o)
    ELSE AccessBits(width)

\* reg with `count` bits from `pos` replaced by value
Inserted(reg, pos, count, value) ==
    IF count = 0 THEN reg
    ELSE ((reg \div (2 ^ (pos + count))) * (2 ^ (pos + count)))
         + ((value % (2 ^ count)) * (2 ^ pos))
         + (reg % (2 ^ pos))

Level1PteAddr(c, virt) ==
    ((c.satp % (2 ^ PPN_BITS)) * (2 ^ PAGESIZE))
    + ((virt \div (2 ^ (PAGESIZE + VPN0_BITS))) * PTESIZE)

Level0PteAddr(c, p, virt) ==
    (Level1Pte(c, p, virt).ppn * (2 ^ PAGESIZE))
    + (((virt \div (2 ^ PAGESIZE)) % (2 ^ VPN0_BITS)) * PTESIZE)

LeafPteAddr(c, p, virt) ==
    IF IsMegapage(c, p, virt) THEN Level1PteAddr(c, virt)
    ELSE Level0PteAddr(c, p, virt)

\* the PTE word val with the accessed bit (6) set and, for a write, the dirty
\* bit (7)
Touched(val, wr) ==
    val + (IF Bit(val, 6) = 0 THEN 64 ELSE 0)
        + (IF wr /\ Bit(val, 7) = 0 THEN 128 ELSE 0)

Writes(log) == {k \in 1..Len(log) : log[k].op = "write"}

\* C28: a successful translation with noisy true writes the leaf PTE, with
\* its accessed bit set and for a write intent its dirty bit set, back to the
\* address it was read from (the level-1 entry for a megapage, the level-0
\* entry otherwise) and writes nothing else; with noisy false it writes no
\* physical memory.
C28_WriteBack ==
    [][(call'.op = "rv_convert_addr" /\ satp_active(cpu)
        /\ call'.ex = rv_exc_none) =>
          LET virt == call'.addr
              addr == LeafPteAddr(cpu, pm, virt)
          IN  IF call'.noisy
              THEN /\ pm'.mem = [pm.mem EXCEPT
                                   ![addr] = Touched(pm.mem[addr], call'.wr)]
                   /\ Writes(call'.log) = {Len(call'.log)}
                   /\ call'.log[Len(call'.log)].addr = addr
                   /\ call'.log[Len(call'.log)].width = 32
              ELSE /\ pm' = pm
                   /\ Writes(call'.log) = {}]_vars

\* a noisy store translation through the 4 KiB leaf v|r|w|x: the level-0
\* entry now has a and d set, the level-1 pointer is untouched
C28_Witness ==
    /\ call.op = "rv_convert_addr" /\ call.ex = rv_exc_none
    /\ call.wr /\ call.noisy
    /\ Len(call.log) = 3
    /\ pm.mem[(2 * (2 ^ PAGESIZE)) + (2 * PTESIZE)] = Pte(15 + 64 + 128, LeafPpn)
    /\ pm.mem[(1 * (2 ^ PAGESIZE)) + (1 * PTESIZE)] = Pte(1, 2)

\* the PTE is invalid: v = 0, or w = 1 with r = 0
PteInvalid(pte) == pte.v = 0 \/ (pte.w = 1 /\ pte.r = 0)

PteLeaf(pte) == pte.r = 1 \/ pte.w = 1 \/ pte.x = 1

\* the cases in which the walk of virt faults
WalkFaults(c, p, virt, wr, fetch) ==
    LET pte1 == Level1Pte(c, p, virt)
        pte0 == Level0Pte(c, p, virt)
    IN  \/ PteInvalid(pte1)
        \/ PteLeaf(pte1) /\ pte1.ppn % (2 ^ VPN0_BITS) # 0
        \/ ~PteLeaf(pte1) /\ PteInvalid(pte0)
        \/ ~PteLeaf(pte1) /\ ~PteLeaf(pte0)
        \/ ~is_access_allowed(c, IF PteLeaf(pte1) THEN pte1 ELSE pte0, wr, fetch)

\* C29: with translation active rv_convert_addr returns a page fault exactly
\* when a visited PTE is invalid, the level-1 PTE is a leaf with ppn0 # 0,
\* the level-0 PTE is not a leaf or the permission check fails; the code is
\* instruction_page_fault for a fetch, store_amo_page_fault for a write and
\* load_page_fault for a read; a faulting call writes no physical memory and
\* does not assign the physical address.
C29_PageFaults ==
    [][(call'.op = "rv_convert_addr" /\ satp_active(cpu)) =>
          IF WalkFaults(cpu, pm, call'.addr, call'.wr, call'.fetch)
          THEN /\ call'.ex = IF call'.fetch THEN rv_exc_instruction_page_fault
                             ELSE IF call'.wr THEN rv_exc_store_amo_page_fault
                             ELSE rv_exc_load_page_fault
               /\ call'.phys = -1
               /\ pm' = pm
               /\ Writes(call'.log) = {}
          ELSE /\ call'.ex = rv_exc_none
               /\ call'.phys >= 0]_vars

\* a noisy fetch through a megapage entry whose ppn0 is not 0: instruction
\* page fault after one PTE read, the entry is as it was
C29_Witness ==
    /\ call.op = "rv_convert_addr" /\ call.fetch /\ call.noisy
    /\ call.ex = rv_exc_instruction_page_fault
    /\ call.phys = -1
    /\ Len(call.log) = 1
    /\ pm.mem[(1 * (2 ^ PAGESIZE)) + (1 * PTESIZE)] = Pte(19, LeafPpn)

(***************************************************************************)
(* Accounting.  In a step of rv_cpu_step_execute the primed state is the   *)
(* state at cpu.c:750: the instruction has executed, account has run and   *)
(* no trap has been entered, so cpu'.priv_mode, cpu'.stdby and             *)
(* cpu'.mcountinhibit are the values account read.                         *)
(***************************************************************************)
Executing == phase = "idle" /\ phase' = "executed"

\* the value the executed instruction left in a counter CSR: a csrw that
\* completed wrote it, everything else leaves it alone
Executed(name) ==
    IF instr_data'.op = "csrw" /\ instr_data'.csr = name /\ ex' = rv_exc_none
    THEN instr_data'.imm
    ELSE cpu[name]

\* C31: in every rv_cpu_step, cycle increases by exactly 1 iff bit 0 of
\* mcountinhibit is clear (in standby and in trapping steps too), instret
\* increases by exactly 1 iff the step raised no exception, stdby is false
\* after execution and bit 2 of mcountinhibit is clear; otherwise each is
\* unchanged, and the rest of the step (trap entry, pc update) changes neither
C31_CycleInstret ==
    [][/\ Executing =>
            /\ cpu'.cycle = IF Bit(cpu'.mcountinhibit, 0) = 0
                             THEN (Executed("cycle") + 1) % W64
                             ELSE Executed("cycle")
            /\ cpu'.instret = IF /\ ex' = rv_exc_none
                                  /\ ~cpu'.stdby
                                  /\ Bit(cpu'.mcountinhibit, 2) = 0
                               THEN (Executed("instret") + 1) % W64
                               ELSE Executed("instret")
       /\ Delivering => cpu'.cycle = cpu.cycle /\ cpu'.instret = cpu.instret
      ]_vars

\* a step that entered standby by WFI, and a step that trapped, counted a
\* cycle and no instruction
C31_Witness ==
    /\ phase = "executed"
    /\ cpu.mcountinhibit = 0
    /\ cpu.cycle = 0 /\ cpu.instret = W64 - 1
    /\ cpu.mtvec = 0
    /\ \/ cpu.stdby /\ instr_data.op = "wfi"
       \/ ex = rv_exc_umode_environment_call

\* C32: in every rv_cpu_step, hpmcounters[i] increases by exactly 1 iff bit
\* i + 3 of mcountinhibit is clear and the event selected in hpmevents[i] holds
\* (u/s/m_cycles: priv_mode is U/S/M; w_cycles: stdby), with priv_mode and
\* stdby taken after instruction execution and before trap entry; otherwise it
\* is unchanged
EventHolds(c, event) ==
    \/ event = "hpm_u_cycles" /\ c.priv_mode = rv_umode
    \/ event = "hpm_s_cycles" /\ c.priv_mode = rv_smode
    \/ event = "hpm_m_cycles" /\ c.priv_mode = rv_mmode
    \/ event = "hpm_w_cycles" /\ c.stdby

C32_HpmCounters ==
    [][/\ Executing =>
            \A i \in HpmCounters :
                cpu'.hpmcounters[i] =
                    IF /\ Bit(cpu'.mcountinhibit, i + 3) = 0
                       /\ EventHolds(cpu', cpu.hpmevents[i])
                    THEN (cpu.hpmcounters[i] + 1) % W64
                    ELSE cpu.hpmcounters[i]
       /\ Delivering => cpu'.hpmcounters = cpu.hpmcounters
      ]_vars

\* an mret from M to S counted as an S cycle, and the ecall of a U-mode step
\* that then trapped to M counted as a U cycle; the inhibited counter 2 with
\* the same event stood still
C32_Witness ==
    /\ phase = "idle" /\ steps = MaxSteps
    /\ cpu.mcountinhibit = 40
    /\ \E i \in HpmCounters :
          /\ i \notin {0, 2}
          /\ \/ /\ instr_data.op = "mret" /\ cpu.priv_mode = rv_smode
                /\ cpu.hpmevents[i] = "hpm_s_cycles" /\ cpu.hpmevents[0] = "hpm_m_cycles"
             \/ /\ ex = rv_exc_umode_environment_call /\ cpu.priv_mode = rv_mmode
                /\ cpu.hpmevents[i] = "hpm_u_cycles" /\ cpu.hpmevents[0] = "hpm_m_cycles"
          /\ cpu.hpmcounters[i] = 1
          /\ cpu.hpmcounters[0] = 0

(***************************************************************************)
(* The noisy flag of rv_read_mem8/16/32.  An access of the log with        *)
(* noisy = TRUE reaches its device with side effects enabled.              *)
(***************************************************************************)
ReadCall(cl) == cl.op = "rv_read_mem"

Reads(log) == {k \in 1..Len(log) : log[k].op = "read"}

\* C33: in rv_read_mem8/16/32 the noisy flag supplied by the caller governs
\* every physical-memory read the call performs: with noisy = FALSE no read
\* is made with side effects enabled, neither for the page-table walk nor for
\* the final data read
C33_Original ==
    ReadCall(call) => \A k \in Reads(call.log) : call.log[k].noisy = call.noisy

\* a quiet read through a 4 KiB page: the two reads of the walk are quiet and
\* the data read that follows them is not
C33_Witness ==
    /\ ReadCall(call) /\ ~call.noisy
    /\ call.ex = rv_exc_none
    /\ Len(call.log) = 3
    /\ \A k \in 1..2 : call.log[k].op = "read" /\ ~call.log[k].noisy
    /\ call.log[3].op = "read" /\ call.log[3].noisy
    /\ call.log[3].width = call.width

(***************************************************************************)
(* Trap entry with a reserved vector mode.                                 *)
(***************************************************************************)
LegalMode(tvec) ==
    TvecMode(tvec) \in {rv_csr_mtvec_mode_direct, rv_csr_mtvec_mode_vectored}

\* C34: a trap entered while mtvec (M-trap) or stvec (S-trap) has a mode other
\* than direct or vectored is fatal: the step ends in the failed assertion,
\* pc is not advanced to any next pc and no further step is taken; a trap
\* through a legal mode does not abort
C34_ReservedModeFatal ==
    [][/\ Delivering =>
            LET illegal == \/ TrapTaken(cpu') = "m" /\ ~LegalMode(cpu.mtvec)
                           \/ TrapTaken(cpu') = "s" /\ ~LegalMode(cpu.stvec)
            IN  /\ illegal <=> (phase' = "aborted")
                /\ illegal => cpu'.aborted /\ cpu'.pc = cpu.pc
                                /\ cpu'.pc_next = cpu.pc_next
       /\ phase # "aborted"
      ]_vars

\* an M-trap for the machine timer interrupt through mtvec mode 2, or an
\* S-trap for a delegated U-mode ecall through stvec mode 3, ended in the
\* assertion
C34_Witness ==
    /\ phase = "aborted" /\ cpu.aborted
    /\ \/ /\ cpu.trapped = <<<<"m", rv_exc_machine_timer_interrupt>>>>
          /\ TvecMode(cpu.mtvec) = 2
       \/ /\ cpu.trapped = <<<<"s", rv_exc_umode_environment_call>>>>
          /\ TvecMode(cpu.stvec) = 3

(***************************************************************************)
(* Delegation of the supervisor interrupts.                                *)
(***************************************************************************)
\* supervisor interrupt n is pending and enabled with its mideleg bit clear
PendingUndelegated(c, n) ==
    /\ n \in rv_csr_si_numbers
    /\ Bit(effective_mip(c), n) = 1
    /\ Bit(c.mie, n) = 1
    /\ Bit(c.mideleg, n) = 0

\* C35: an interrupt is taken in S-mode only if its mideleg bit is set; while
\* a pending and enabled supervisor interrupt has its mideleg bit clear, the
\* step takes an interrupt in M-mode or none at all, never one by s_trap
C35_DelegatedOnly ==
    [][(Delivering /\ ex = rv_exc_none) =>
          /\ TrapTaken(cpu') = "s" =>
                Bit(cpu.mideleg, RV_INTERRUPT_NO(TrapCause(cpu'))) = 1
          /\ (\E n \in rv_csr_si_numbers : PendingUndelegated(cpu, n)) =>
                TrapTaken(cpu') \in {"m", "none"}
      ]_vars

\* from U-mode, with SEI delegated and pending and the undelegated supervisor
\* timer interrupt pending too, the step trapped to M-mode for the timer
C35_Witness ==
    /\ phase = "idle" /\ steps = MaxSteps
    /\ cpu.trapped = <<<<"m", rv_exc_supervisor_timer_interrupt>>>>
    /\ rv_csr_mstatus_mpp(cpu) = rv_umode
    /\ cpu.mideleg = 2 ^ SEI
    /\ Bit(effective_mip(cpu), SEI) = 1 /\ Bit(cpu.mie, SEI) = 1
    /\ cpu.mcause = rv_exc_supervisor_timer_interrupt

(***************************************************************************)
(* Privilege across a trap.                                                *)
(***************************************************************************)
\* C36: s_trap is never entered while priv_mode = M, for exceptions or for
\* interrupts, so a trap never lowers the privilege level and the one-bit
\* sstatus.SPP written by s_trap is exactly the previous priv_mode (U or S)
C36_NoSTrapFromM ==
    [][Delivering =>
          /\ TrapTaken(cpu') = "s" =>
                /\ cpu.priv_mode \in {rv_umode, rv_smode}
                /\ Bit(cpu'.mstatus, rv_csr_sstatus_spp_pos) = cpu.priv_mode
                /\ cpu'.priv_mode = rv_smode
          /\ TrapTaken(cpu') # "none" => cpu'.priv_mode >= cpu.priv_mode
      ]_vars

\* an illegal instruction executed in M-mode while medeleg delegates the
\* illegal-instruction exception trapped to M-mode
C36_Witness ==
    /\ phase = "idle" /\ steps = MaxSteps
    /\ cpu.trapped = <<<<"m", rv_exc_illegal_instruction>>>>
    /\ Bit(cpu.medeleg, RV_INTERRUPT_NO(rv_exc_illegal_instruction)) = 1
    /\ rv_csr_mstatus_mpp(cpu) = rv_mmode
    /\ cpu.priv_mode = rv_mmode

(***************************************************************************)
(* Waking from WFI.  The hart waiting in standby is at the state of        *)
(* cpu.c:750 with stdby set: it has just executed the WFI at pc, or it was *)
(* left waiting by an earlier step, which did not move pc.                 *)
(***************************************************************************)
\* the next pc a trap for e through tvec selects (mode direct or vectored)
Vector(tvec, e) ==
    IF TvecMode(tvec) = rv_csr_mtvec_mode_vectored /\ IsInterrupt(e)
    THEN U32(TvecBase(tvec) + (4 * RV_INTERRUPT_NO(e)))
    ELSE TvecBase(tvec)

\* C37: when a hart that entered standby by WFI is woken by an interrupt, the
\* saved epc (mepc or sepc) is the address of the WFI + 4: executing the WFI
\* leaves pc and pc_next = pc + 4 alone, a standby step that takes no
\* interrupt does not advance pc, the interrupt saves pc_next, and the same
\* step ends out of standby with pc at the trap vector
C37_WakeEpc ==
    [][/\ (Executing /\ instr_data'.op = "wfi") =>
            /\ cpu'.stdby
            /\ cpu'.pc = cpu.pc
            /\ cpu'.pc_next = U32(cpu.pc + 4)
       /\ (Executing /\ cpu.stdby) =>
            /\ cpu'.stdby
            /\ cpu'.pc = cpu.pc
            /\ cpu'.pc_next = cpu.pc_next
       /\ (Delivering /\ cpu.stdby) =>
            /\ TrapTaken(cpu') = "none" =>
                  cpu'.stdby /\ cpu'.pc = cpu.pc /\ cpu'.pc_next = cpu.pc_next
            /\ TrapTaken(cpu') = "m" =>
                  /\ IsInterrupt(TrapCause(cpu'))
                  /\ cpu'.mepc = U32(cpu.pc + 4)
                  /\ cpu'.pc = Vector(cpu.mtvec, TrapCause(cpu'))
                  /\ ~cpu'.stdby
            /\ TrapTaken(cpu') = "s" =>
                  /\ IsInterrupt(TrapCause(cpu'))
                  /\ cpu'.sepc = U32(cpu.pc + 4)
                  /\ cpu'.pc = Vector(cpu.stvec, TrapCause(cpu'))
                  /\ ~cpu'.stdby
      ]_vars

\* a hart waiting at the start address was woken by a machine interrupt
\* through the vectored mtvec, or by a supervisor interrupt through stvec
C37_Witness ==
    /\ phase = "idle" /\ steps = MaxSteps
    /\ instr_data = NoInstr
    /\ ~cpu.stdby
    /\ \/ /\ TrapTaken(cpu) = "m"
          /\ cpu.mepc = RV_START_ADDRESS + 4
          /\ cpu.mtvec = 257
          /\ cpu.pc = 256 + (4 * RV_INTERRUPT_NO(cpu.mcause))
       \/ /\ TrapTaken(cpu) = "s"
          /\ cpu.sepc = RV_START_ADDRESS + 4
          /\ cpu.pc = TvecBase(cpu.stvec) + (4 * RV_INTERRUPT_NO(cpu.scause))

(***************************************************************************)
(* Stores that physical memory rejects.                                    *)
(***************************************************************************)
WriteCall(cl) == cl.op = "rv_write_mem"

\* physical memory returned false for a write of the call
Rejected(log) == \E k \in 1..Len(log) : log[k].op = "write" /\ ~log[k].ok

\* C38: rv_write_mem8/16/32 return only rv_exc_none, store_amo_page_fault or
\* store_amo_address_misaligned; a store whose physical write is rejected
\* returns rv_exc_none, raises no access fault and leaves tval_next unchanged
C38_RejectedStore ==
    [][WriteCall(call') =>
          /\ call'.ex \in {rv_exc_none, rv_exc_store_amo_page_fault,
                            rv_exc_store_amo_address_misaligned}
          /\ Rejected(call'.log) =>
                /\ call'.ex = rv_exc_none
                /\ cpu'.tval_next = cpu.tval_next
      ]_vars

\* a noisy 32-bit store through the megapage, behind which nothing is mapped:
\* the walk succeeded, the data write was rejected, the call returned
\* rv_exc_none
C38_Witness ==
    /\ WriteCall(call) /\ call.width = 32 /\ call.noisy
    /\ call.ex = rv_exc_none
    /\ Len(call.log) = 3
    /\ call.log[2].op = "write" /\ call.log[2].ok
    /\ call.log[3].op = "write" /\ ~call.log[3].ok
    /\ call.log[3].addr # call.addr
    /\ cpu.tval_next = 0

(***************************************************************************)
(* Shape of the decoded-instruction cache.                                 *)
(***************************************************************************)
\* C39: after any sequence of fetches, writes and rv_cpu_done calls the cache
\* holds at most one entry per frame address, every entry's address is
\* aligned to the frame size and has a RAM frame, and immediately after
\* rv_cpu_done the cache is empty
C39_CacheShape ==
    /\ \A i, j \in 1..Len(cache) : cache[i].addr = cache[j].addr => i = j
    /\ \A i \in 1..Len(cache) :
          /\ IS_ALIGNED(cache[i].addr, FRAME_SIZE)
          /\ physmem_find_frame(pm, cache[i].addr) = cache[i].addr
    /\ call.op = "rv_cpu_done" => cache = <<>>

\* both frames are cached and a fetch from the second word of the first
\* frame hit its entry without adding one
C39_Witness ==
    /\ Len(cache) = 2
    /\ cache[1].addr = FRAME_SIZE /\ cache[2].addr = 0
    /\ call.op = "fetch_instr" /\ call.addr = 4
    /\ call.log = <<>>

====
